---- MODULE Spec2Model ----
(***************************************************************************)
(* Model of the per-client request lifecycle engine of the Phusion         *)
(* Passenger helper agent (ext/common/agents/HelperAgent/RequestHandler.h).*)
(*                                                                         *)
(* The event loop is single threaded: every action below is one complete   *)
(* event handler.  Handlers are written as operators over a "world" record *)
(* w = [clients, cl, net, hist, crashed, io] so that nested calls compose  *)
(* the way they do in the source; an action applies one handler to the     *)
(* current world and commits the result.  w.io holds what the environment  *)
(* answers during this one event (how the pool answers asyncGet, how the   *)
(* sockets answer write); it is chosen anew for every event.               *)
(*                                                                         *)
(*   clients  RequestHandler::clients, the fd -> Client table              *)
(*   cl       the Client objects, by object identity                       *)
(*   net      the environment of each client: its socket, the worker       *)
(*            socket of its session, the pool calls in flight              *)
(*   hist     history of what went over the wires (observation only)       *)
(*   crashed  "none", or the assertion / abort() / exception that ended    *)
(*            the process                                                  *)
(***************************************************************************)
EXTENDS Integers, Sequences, FiniteSets, TLC

VARIABLES clients, cl, net, hist, crashed

vars == <<clients, cl, net, hist, crashed>>

-----------------------------------------------------------------------------
(* Bounds of the model *)

\* longest request body a client sends
MaxBody == 2
\* most bytes a socket with limited room takes before it reports EAGAIN
MaxCap == 1

-----------------------------------------------------------------------------
(* Sequences *)

Take(s, n) == SubSeq(s, 1, n)
Drop(s, n) == SubSeq(s, n + 1, Len(s))
Min(a, b) == IF a < b THEN a ELSE b
IsPrefix(p, s) == Len(p) <= Len(s) /\ Take(s, Len(p)) = p

-----------------------------------------------------------------------------
(* Configuration and the bytes that travel *)

\* AgentOptions::requestSocketPassword
requestSocketPassword == <<"s", "e", "c">>

\* unsigned int arithmetic (Client::backgroundOperations, sessionCheckoutTry)
UIntModulus == 65536
UIntInc(x) == (x + 1) % UIntModulus
UIntDec(x) == (x + UIntModulus - 1) % UIntModulus

\* Object identities of the Client objects one run may create.
SingleIds == {1}

-----------------------------------------------------------------------------
(* Collaborators of the request handler, modelled by their contract.       *)

\* EventedBufferedInput: a paused/started reader with the unconsumed tail of
\* the last chunk.
NewInput == [started |-> FALSE, buffer |-> <<>>]
EBI_start(i) == [i EXCEPT !.started = TRUE]
EBI_stop(i) == [i EXCEPT !.started = FALSE]
EBI_reset(i) == NewInput

\* most bytes a FileBackedPipe keeps in memory before it spills to its file
PipeThreshold == 1

\* FileBackedPipe: bytes written and not yet consumed, whether the consumer is
\* started, whether end() was called, whether a write to the file is in flight.
NewPipe == [started |-> FALSE, buf |-> <<>>, ended |-> FALSE,
            committing |-> FALSE, endReached |-> FALSE]
FBP_start(p) == [p EXCEPT !.started = TRUE]
FBP_stop(p) == [p EXCEPT !.started = FALSE]
FBP_reset(p) == NewPipe
FBP_end(p) == [p EXCEPT !.ended = TRUE]
FBP_isCommittingToDisk(p) == p.committing
\* write(): the pipe after the write; write() returns FBP_writeAccepted of it
FBP_write(p, data) ==
    [p EXCEPT !.buf = p.buf \o data,
              !.committing = p.committing \/ Len(p.buf \o data) > PipeThreshold]
FBP_writeAccepted(p) == ~p.committing
\* the consume callback: consumed(n, done)
FBP_consumed(p, n, done) ==
    [p EXCEPT !.buf = Drop(p.buf, n),
              !.started = IF done THEN FALSE ELSE p.started]

\* ScgiRequestParser.  A header block arrives as tokens: "," ends a valid
\* block, "!" is a malformed byte, "#" is a length the parser's limit refuses,
\* any other token is one key=value pair.
HeaderTable ==
    {<<"PASSENGER_BUFFERING=true", "PASSENGER_BUFFERING", "true">>,
     <<"PASSENGER_BUFFERING=yes", "PASSENGER_BUFFERING", "yes">>,
     <<"PASSENGER_PRINT_STATUS_LINE=false", "PASSENGER_PRINT_STATUS_LINE", "false">>,
     <<"PASSENGER_PRINT_STATUS_LINE=true", "PASSENGER_PRINT_STATUS_LINE", "true">>,
     <<"PASSENGER_PRINT_STATUS_LINE=yes", "PASSENGER_PRINT_STATUS_LINE", "yes">>,
     <<"HTTP_CONTENT_LENGTH=2", "HTTP_CONTENT_LENGTH", "2">>,
     <<"CONTENT_LENGTH=2", "CONTENT_LENGTH", "2">>,
     <<"CONTENT_LENGTH=3", "CONTENT_LENGTH", "3">>,
     <<"HTTP_CONTENT_TYPE=b", "HTTP_CONTENT_TYPE", "b">>,
     <<"CONTENT_TYPE=a", "CONTENT_TYPE", "a">>,
     <<"CONTENT_TYPE=b", "CONTENT_TYPE", "b">>}
HeaderKeys == {e[2] : e \in HeaderTable}
TokenKey(t) == (CHOOSE e \in HeaderTable : e[1] = t)[2]
TokenValue(t) == (CHOOSE e \in HeaderTable : e[1] = t)[3]
PairToken(k, v) == (CHOOSE e \in HeaderTable : e[2] = k /\ e[3] = v)[1]

\* the order in which the header map is iterated
KeyOrder == <<"CONTENT_LENGTH", "CONTENT_TYPE", "HTTP_CONTENT_LENGTH",
              "HTTP_CONTENT_TYPE", "PASSENGER_BUFFERING",
              "PASSENGER_PRINT_STATUS_LINE">>
EmptyMap == [k \in {} |-> "x"]
MapSet(m, k, v) == [x \in DOMAIN m \cup {k} |-> IF x = k THEN v ELSE m[x]]
MapErase(m, k) == [x \in DOMAIN m \ {k} |-> m[x]]

NewParser == [state |-> "READING", errorReason |-> "NONE", map |-> EmptyMap,
              headerData |-> <<>>]

\* feed one token
ScgiFeed1(ps, t) ==
    IF t = "," THEN [ps EXCEPT !.state = "DONE"]
    ELSE IF t = "!" THEN [ps EXCEPT !.state = "ERROR", !.errorReason = "INVALID"]
    ELSE IF t = "#" THEN [ps EXCEPT !.state = "ERROR", !.errorReason = "LIMIT_REACHED"]
    ELSE [ps EXCEPT !.map = MapSet(ps.map, TokenKey(t), TokenValue(t)),
                    !.headerData = Append(ps.headerData, t)]

\* feed(data, size): the parser afterwards and the number of bytes it consumed
RECURSIVE ScgiFeed(_, _, _)
ScgiFeed(ps, data, n) ==
    IF ps.state # "READING" \/ n >= Len(data) THEN [parser |-> ps, consumed |-> n]
    ELSE ScgiFeed(ScgiFeed1(ps, data[n + 1]), data, n + 1)

\* rebuildData(modified): the header data is serialised again from the map
RECURSIVE SerialiseMap(_, _)
SerialiseMap(m, order) ==
    IF order = <<>> THEN <<>>
    ELSE IF Head(order) \in DOMAIN m
         THEN <<PairToken(Head(order), m[Head(order)])>> \o SerialiseMap(m, Tail(order))
         ELSE SerialiseMap(m, Tail(order))
ScgiRebuildData(ps, modified) ==
    IF modified
    THEN [ps EXCEPT !.headerData = SerialiseMap(ps.map, KeyOrder)]
    ELSE ps

\* HttpHeaderBufferer.  The worker's response arrives as tokens: "E" is the
\* empty line that ends the header block, "?" makes the block invalid, every
\* other token before "E" is one header line.
NewBufferer == [state |-> "WORKING", data |-> <<>>]
RECURSIVE HeaderBuffererFeed(_, _, _)
HeaderBuffererFeed(hb, data, n) ==
    IF hb.state # "WORKING" \/ n >= Len(data) THEN [bufferer |-> hb, consumed |-> n]
    ELSE LET t == data[n + 1] IN
         HeaderBuffererFeed(
            IF t = "?" THEN [hb EXCEPT !.state = "ERROR"]
            ELSE [hb EXCEPT !.data = Append(hb.data, t),
                            !.state = IF t = "E" THEN "DONE" ELSE "WORKING"],
            data, n + 1)

\* ApplicationPool2::Options, the fields the request handler fills in
NewOptions == [appRoot |-> "", appType |-> "", spawnMethod |-> "",
               startCommand |-> "", loadShellEnvvars |-> "unset"]

\* Session: none, or the session the pool handed out
NoSession == [null |-> TRUE, initiated |-> FALSE]

-----------------------------------------------------------------------------
(* class Client *)

resetPrimitiveFields(c) ==
    [c EXCEPT !.requestHandler = FALSE,
              !.state = "DISCONNECTED",
              !.backgroundOperations = 0,
              !.requestBodyIsBuffered = FALSE,
              \* freeBufferedConnectPassword()
              !.bufferedConnectPassword =
                  IF c.bufferedConnectPassword.allocated
                  THEN [allocated |-> FALSE, data |-> <<>>, alreadyRead |-> 0]
                  ELSE c.bufferedConnectPassword,
              !.sessionCheckedOut = FALSE,
              !.sessionCheckoutTry = 0,
              !.responseHeaderSeen = FALSE]

\* Client::Client()
NewClient ==
    resetPrimitiveFields(
      [requestHandler |-> FALSE, fd |-> -1, fdnum |-> -1,
       clientInput |-> NewInput, clientBodyBuffer |-> NewPipe,
       clientOutputPipe |-> NewPipe, clientOutputWatcher |-> FALSE,
       appInput |-> NewInput, appOutputBuffer |-> <<>>,
       appOutputWatcher |-> FALSE,
       state |-> "DISCONNECTED", backgroundOperations |-> 0,
       bufferedConnectPassword |->
           [allocated |-> FALSE, data |-> <<>>, alreadyRead |-> 0],
       timeoutTimer |-> FALSE,
       options |-> NewOptions,
       scgiParser |-> NewParser, session |-> NoSession,
       sessionCheckoutTry |-> 0, requestBodyIsBuffered |-> FALSE,
       sessionCheckedOut |-> FALSE,
       responseHeaderSeen |-> FALSE, responseHeaderBufferer |-> NewBufferer])

freeBufferedConnectPassword(c) ==
    IF c.bufferedConnectPassword.allocated
    THEN [c EXCEPT !.bufferedConnectPassword =
                       [allocated |-> FALSE, data |-> <<>>, alreadyRead |-> 0]]
    ELSE c

\* Client::associate(handler, fd); the caller has checked requestHandler == NULL
associate(c, fd) ==
    [c EXCEPT !.requestHandler = TRUE,
              !.fd = fd,
              !.fdnum = fd,
              !.state = "BEGIN_READING_CONNECT_PASSWORD",
              !.clientInput = EBI_start(EBI_reset(c.clientInput)),
              !.clientBodyBuffer = FBP_reset(c.clientBodyBuffer),
              !.clientOutputPipe = FBP_start(FBP_reset(c.clientOutputPipe)),
              !.timeoutTimer = TRUE]

\* Client::discard()
discardMutantKeepsFd(c) ==
    [resetPrimitiveFields(c) EXCEPT
              !.clientInput = EBI_stop(c.clientInput),
              !.clientBodyBuffer = FBP_stop(c.clientBodyBuffer),
              !.clientOutputPipe = FBP_stop(c.clientOutputPipe),
              !.clientOutputWatcher = FALSE,
              !.appInput = EBI_stop(c.appInput),
              !.appOutputWatcher = FALSE,
              !.timeoutTimer = FALSE]

discard(c) ==
    [resetPrimitiveFields(c) EXCEPT
              !.fd = -1,
              !.clientInput = EBI_stop(c.clientInput),
              !.clientBodyBuffer = FBP_stop(c.clientBodyBuffer),
              !.clientOutputPipe = FBP_stop(c.clientOutputPipe),
              !.clientOutputWatcher = FALSE,
              !.appInput = EBI_stop(c.appInput),
              !.appOutputWatcher = FALSE,
              !.timeoutTimer = FALSE]

connected(c) == c.requestHandler

\* Client::reassociateable(); `endpointsResetable` is what the resetable() of
\* the four endpoints answer together
reassociateable(c, endpointsResetable) ==
    /\ c.requestHandler = FALSE
    /\ c.backgroundOperations = 0
    /\ endpointsResetable

\* Client::verifyInvariants(): the two assertions
verifyInvariants(c) ==
    /\ (c.requestHandler = FALSE) = (c.fd = -1)
    /\ (c.requestHandler = FALSE) = (c.state = "DISCONNECTED")

\* the order of the enum Client::state
StateRank(st) ==
    CASE st = "BEGIN_READING_CONNECT_PASSWORD" -> 0
      [] st = "STILL_READING_CONNECT_PASSWORD" -> 1
      [] st = "READING_HEADER" -> 2
      [] st = "BUFFERING_REQUEST_BODY" -> 3
      [] st = "CHECKING_OUT_SESSION" -> 4
      [] st = "SENDING_HEADER_TO_APP" -> 5
      [] st = "FORWARDING_BODY_TO_APP" -> 6
      [] st = "WRITING_SIMPLE_RESPONSE" -> 7
      [] st = "DISCONNECTED" -> 8

-----------------------------------------------------------------------------
(* class RequestHandler: helpers on the world record *)

\* a failed assert(), an abort() or an uncaught exception ends the process
Crash(w, what) == IF w.crashed = "none" THEN [w EXCEPT !.crashed = what] ELSE w

\* a table that would forget every client when one is erased
TableEraseMutantClears(t, fd) == {}
\* an erase that would leave the entry in
TableEraseMutantKeeps(t, fd) == t
\* clients.erase(fd)
TableErase(t, fd) == {e \in t : e[1] # fd}
TableInsert(t, fd, id) == IF \E e \in t : e[1] = fd THEN t ELSE t \cup {<<fd, id>>}

\* RequestHandler::disconnect
disconnect(w, id) ==
    LET c == w.cl[id]
        w1 == [w EXCEPT !.clients = TableErase(w.clients, c.fd)]
    IN  IF ~c.requestHandler THEN Crash(w1, "assert: discard: requestHandler != NULL")
        ELSE LET w2 == [w1 EXCEPT !.cl[id] = discard(c)]
             IN  IF verifyInvariants(w2.cl[id]) THEN w2
                 ELSE Crash(w2, "assert: verifyInvariants")

disconnectWithError(w, id, message) ==
    disconnect([w EXCEPT !.hist[id].lastError = message], id)

disconnectWithClientSocketWriteError(w, id) ==
    disconnectWithError(w, id, "client socket write error")

disconnectWithAppSocketWriteError(w, id) ==
    disconnectWithError(w, id, "app socket write error")

\* an option that would be on whatever value it is given
getBoolOptionMutantAnyValue(c, name, defaultValue) ==
    IF name \in DOMAIN c.scgiParser.map THEN TRUE ELSE defaultValue

\* RequestHandler::getBoolOption
getBoolOption(c, name, defaultValue) ==
    IF name \in DOMAIN c.scgiParser.map
    THEN c.scgiParser.map[name] = "true"
    ELSE defaultValue

-----------------------------------------------------------------------------
(* System calls.  What a socket does when it is written to is the           *)
(* environment's choice, made anew for every event: w.io.app and w.io.cli   *)
(* say whether the peer has gone away ("epipe"), the socket fails ("error") *)
(* or how many more bytes it takes before it reports EAGAIN (-1: any        *)
(* number).  That a peer has gone away stays true (net[id].appSock,         *)
(* net[id].cliSock).                                                        *)

SockStatus(stored, ioSock) ==
    IF stored # "ok" THEN stored
    ELSE IF ioSock.fail # "none" THEN ioSock.fail ELSE "ok"

Taken(ioSock, size) == IF ioSock.cap = -1 THEN size ELSE Min(size, ioSock.cap)

\* syscalls::write(client->fd, data, size): the world after the call, the
\* value returned and errno
clientWrite(w, id, data) ==
    LET status == SockStatus(w.net[id].cliSock, w.io.cli)
        k == Taken(w.io.cli, Len(data))
    IN  IF status = "epipe"
        THEN [w |-> [w EXCEPT !.net[id].cliSock = "epipe"], ret |-> -1, errno |-> "EPIPE"]
        ELSE IF status = "error"
        THEN [w |-> [w EXCEPT !.net[id].cliSock = "error"], ret |-> -1, errno |-> "EIO"]
        ELSE IF k = 0 THEN [w |-> w, ret |-> -1, errno |-> "EAGAIN"]
        ELSE [w |-> [w EXCEPT !.io.cli.cap = IF @ = -1 THEN -1 ELSE @ - k,
                              !.hist[id].cliRecv = @ \o Take(data, k)],
              ret |-> k, errno |-> "none"]

\* syscalls::write(client->session->fd(), data, size)
appWrite(w, id, data) ==
    LET status == SockStatus(w.net[id].appSock, w.io.app)
        k == Taken(w.io.app, Len(data))
    IN  IF status = "epipe"
        THEN [w |-> [w EXCEPT !.net[id].appSock = "epipe"], ret |-> -1, errno |-> "EPIPE"]
        ELSE IF status = "error"
        THEN [w |-> [w EXCEPT !.net[id].appSock = "error"], ret |-> -1, errno |-> "EIO"]
        ELSE IF k = 0 THEN [w |-> w, ret |-> -1, errno |-> "EAGAIN"]
        ELSE [w |-> [w EXCEPT !.io.app.cap = IF @ = -1 THEN -1 ELSE @ - k,
                              !.hist[id].appRecv = @ \o Take(data, k)],
              ret |-> k, errno |-> "none"]

-----------------------------------------------------------------------------
(* COMPONENT: error response *)

\* clientOutputPipe->write(data): the write itself
outputPipeWrite(w, id, data) ==
    [w EXCEPT !.cl[id].clientOutputPipe = FBP_write(@, data),
              !.hist[id].pipeWritten = @ \o data]

ErrorResponseHeader(c) ==
    (IF getBoolOption(c, "PASSENGER_PRINT_STATUS_LINE", TRUE)
     THEN <<"HTTP/1.1 500 Internal Server Error">> ELSE <<>>)
    \o <<"Status: 500 Internal Server Error", "Content-Length",
         "Content-Type: text/html; charset=UTF-8", "E">>

ErrorResponseBody(c) ==
    IF getBoolOption(c, "PASSENGER_FRIENDLY_ERROR_PAGES", TRUE)
    THEN <<"friendly error page">>
    ELSE <<"undisclosed error page">>

\* RequestHandler::writeErrorResponse
writeErrorResponse(w, id) ==
    IF ~(StateRank(w.cl[id].state) < StateRank("FORWARDING_BODY_TO_APP"))
    THEN Crash(w, "assert: writeErrorResponse: state < FORWARDING_BODY_TO_APP")
    ELSE
    LET w1 == [w EXCEPT !.cl[id].state = "WRITING_SIMPLE_RESPONSE"]
        w2 == outputPipeWrite(w1, id, ErrorResponseHeader(w1.cl[id]))
        w3 == outputPipeWrite(w2, id, ErrorResponseBody(w2.cl[id]))
    IN  [w3 EXCEPT !.cl[id].clientOutputPipe = FBP_end(@)]

-----------------------------------------------------------------------------
(* COMPONENT: appInput -> clientOutputPipe plumbing *)

\* the Status lines a worker may send: the line, its value, whether the value
\* contains a space, and the status code the value converts to
StatusTable ==
    {<<"Status: 200", "200", FALSE, "200">>,
     <<"Status: 200 OK", "200 OK", TRUE, "200">>,
     <<"Status: 999", "999", FALSE, "999">>,
     <<"Status: 999 Unknown Reason-Phrase", "999 Unknown Reason-Phrase", TRUE, "999">>,
     <<"Status: 404 Gone Away", "404 Gone Away", TRUE, "404">>}
StatusEntry(t) == CHOOSE e \in StatusTable : e[1] = t
\* getStatusCodeAndReasonPhrase: the code with its reason phrase, "NULL" for a
\* code that the table does not hold
getStatusCodeAndReasonPhrase(code) ==
    IF code = "200" THEN "200 OK" ELSE "NULL"

IsStatusLine(t) == \E e \in StatusTable : e[1] = t

\* lookupHeader(headerData, "Status"): position of the Status line, 0 if none
RECURSIVE lookupStatus(_, _)
lookupStatus(headerData, i) ==
    IF i > Len(headerData) THEN 0
    ELSE IF IsStatusLine(headerData[i]) THEN i
    ELSE lookupStatus(headerData, i + 1)

\* the value of a Status line, and the line with the reason phrase added
StatusValue(t) == StatusEntry(t)[2]
HasReasonPhrase(t) == StatusEntry(t)[3]
\* a rewritten line that leaves out the reason phrase
WithReasonPhraseMutantCodeOnly(t) == "Status: " \o StatusEntry(t)[4]
WithReasonPhrase(t) ==
    LET statusCode == StatusEntry(t)[4]
        statusCodeAndReasonPhrase == getStatusCodeAndReasonPhrase(statusCode)
    IN  "Status: " \o (IF statusCodeAndReasonPhrase = "NULL"
                       THEN statusCode \o " Unknown Reason-Phrase"
                       ELSE statusCodeAndReasonPhrase)

\* RequestHandler::writeToClientOutputPipe
writeToClientOutputPipe(w, id, data) ==
    LET wasCommittingToDisk == FBP_isCommittingToDisk(w.cl[id].clientOutputPipe)
        w1 == outputPipeWrite(w, id, data)
        nowCommittingToDisk == ~FBP_writeAccepted(w1.cl[id].clientOutputPipe)
    IN  IF ~wasCommittingToDisk /\ nowCommittingToDisk
        THEN [w1 EXCEPT !.cl[id].backgroundOperations = UIntInc(@),
                        !.cl[id].appInput = EBI_stop(@)]
        ELSE w1

\* RequestHandler::processResponseHeader
processResponseHeaderMutantDropsRest(w, id, headerData, rest) ==
    LET c == w.cl[id]
        pos == lookupStatus(headerData, 1)
    IN
    IF pos = 0
    THEN disconnectWithError(w, id,
            "application sent malformed response: it didn't send a Status header.")
    ELSE
    LET status == headerData[pos]
        newHeaderData ==
            IF ~HasReasonPhrase(status)
            THEN [headerData EXCEPT ![pos] = WithReasonPhrase(status)]
            ELSE <<>>
        printed == IF ~HasReasonPhrase(status)
                   THEN newHeaderData[lookupStatus(newHeaderData, 1)]
                   ELSE status
        prefix == (IF getBoolOption(c, "PASSENGER_PRINT_STATUS_LINE", TRUE)
                   THEN <<"HTTP/1.1 " \o StatusValue(printed)>> ELSE <<>>)
                  \o <<"X-Powered-By: Phusion Passenger">>
    IN  writeToClientOutputPipe(w, id,
            prefix \o (IF newHeaderData = <<>> THEN headerData ELSE newHeaderData))

processResponseHeader(w, id, headerData, rest) ==
    LET c == w.cl[id]
        pos == lookupStatus(headerData, 1)
    IN
    IF pos = 0
    THEN disconnectWithError(w, id,
            "application sent malformed response: it didn't send a Status header.")
    ELSE
    LET status == headerData[pos]
        newHeaderData ==
            IF ~HasReasonPhrase(status)
            THEN [headerData EXCEPT ![pos] = WithReasonPhrase(status)]
            ELSE <<>>
        \* the status whose value is printed: the original one, or the one
        \* looked up again in newHeaderData
        printed == IF ~HasReasonPhrase(status)
                   THEN newHeaderData[lookupStatus(newHeaderData, 1)]
                   ELSE status
        prefix == (IF getBoolOption(c, "PASSENGER_PRINT_STATUS_LINE", TRUE)
                   THEN <<"HTTP/1.1 " \o StatusValue(printed)>> ELSE <<>>)
                  \o <<"X-Powered-By: Phusion Passenger">>
    IN  \* the prefix is never empty: the header has been modified
        writeToClientOutputPipe(w, id,
            prefix \o (IF newHeaderData = <<>> THEN headerData ELSE newHeaderData)
                   \o rest)

\* a variant of onAppInputEof that stops the reader and leaves the pipe open
onAppInputEofMutantNoEnd(w, id) ==
    IF ~connected(w.cl[id]) THEN w
    ELSE [w EXCEPT !.cl[id].appInput = EBI_stop(@)]

\* RequestHandler::onAppInputEof
onAppInputEof(w, id) ==
    IF ~connected(w.cl[id]) THEN w
    ELSE [w EXCEPT !.cl[id].clientOutputPipe = FBP_end(@),
                   !.cl[id].appInput = EBI_stop(@)]

\* RequestHandler::onAppInputData; the value returned is not modelled apart:
\* it is size for data, 0 for EOF and for a disconnected client
onAppInputDataMutantNoWait(w, id, data) ==
    IF ~connected(w.cl[id]) THEN w
    ELSE IF data = <<>> THEN onAppInputEof(w, id)
    ELSE IF ~w.cl[id].responseHeaderSeen
    THEN LET f == HeaderBuffererFeed(w.cl[id].responseHeaderBufferer, data, 0)
             w1 == [w EXCEPT !.cl[id].responseHeaderBufferer = f.bufferer]
         IN  IF f.bufferer.state = "ERROR"
             THEN disconnectWithError(w1, id,
                     "application response format error (invalid header)")
             ELSE processResponseHeader(
                     [w1 EXCEPT !.cl[id].responseHeaderSeen = TRUE], id,
                     f.bufferer.data, Drop(data, f.consumed))
    ELSE writeToClientOutputPipe(w, id, data)

onAppInputData(w, id, data) ==
    IF ~connected(w.cl[id]) THEN w
    ELSE IF data = <<>> THEN onAppInputEof(w, id)
    ELSE IF ~w.cl[id].responseHeaderSeen
    THEN LET f == HeaderBuffererFeed(w.cl[id].responseHeaderBufferer, data, 0)
             w1 == [w EXCEPT !.cl[id].responseHeaderBufferer = f.bufferer]
         IN  IF f.bufferer.state = "WORKING" THEN w1
             ELSE IF f.bufferer.state = "ERROR"
             THEN disconnectWithError(w1, id,
                     "application response format error (invalid header)")
             ELSE processResponseHeader(
                     [w1 EXCEPT !.cl[id].responseHeaderSeen = TRUE], id,
                     f.bufferer.data, Drop(data, f.consumed))
    ELSE writeToClientOutputPipe(w, id, data)

\* RequestHandler::onAppInputError
onAppInputError(w, id, errorCode) ==
    IF ~connected(w.cl[id]) THEN w
    ELSE IF errorCode = "ECONNRESET" THEN onAppInputEof(w, id)
    ELSE disconnectWithError(w, id, "application socket read error")

\* a commit callback that would disconnect the client
onClientOutputPipeCommitMutantDisconnects(w, id) ==
    IF ~connected(w.cl[id]) THEN w ELSE disconnect(w, id)

\* RequestHandler::onClientOutputPipeCommit
onClientOutputPipeCommit(w, id) ==
    IF ~connected(w.cl[id]) THEN w
    ELSE [w EXCEPT !.cl[id].backgroundOperations = UIntDec(@),
                   !.cl[id].appInput = EBI_start(@)]

-----------------------------------------------------------------------------
(* COMPONENT: clientOutputPipe -> client fd plumbing *)

\* RequestHandler::onClientOutputPipeData
onClientOutputPipeData(w, id, data) ==
    IF ~connected(w.cl[id]) THEN w
    ELSE
    LET r == clientWrite(w, id, data)
        w1 == r.w
    IN  IF r.ret = -1
        THEN LET w2 == IF r.errno = "EAGAIN"
                       THEN [w1 EXCEPT !.cl[id].clientOutputWatcher = TRUE]
                       ELSE IF r.errno = "EPIPE" THEN disconnect(w1, id)
                       ELSE disconnectWithClientSocketWriteError(w1, id)
             IN  [w2 EXCEPT !.cl[id].clientOutputPipe = FBP_consumed(@, 0, TRUE)]
        ELSE [w1 EXCEPT !.cl[id].clientOutputPipe = FBP_consumed(@, r.ret, FALSE)]

\* RequestHandler::onClientOutputPipeEnd
onClientOutputPipeEnd(w, id) ==
    IF ~connected(w.cl[id]) THEN w ELSE disconnect(w, id)

\* RequestHandler::onClientOutputPipeError
onClientOutputPipeError(w, id) ==
    IF ~connected(w.cl[id]) THEN w
    ELSE disconnectWithError(w, id, "client output pipe error")

\* RequestHandler::onClientOutputWritable
onClientOutputWritable(w, id) ==
    IF ~connected(w.cl[id]) THEN w
    ELSE LET w1 == [w EXCEPT !.cl[id].clientOutputWatcher = FALSE]
         IN  IF w1.cl[id].clientOutputPipe.started
             THEN Crash(w1, "assert: onClientOutputWritable: !clientOutputPipe->isStarted()")
             ELSE [w1 EXCEPT !.cl[id].clientOutputPipe = FBP_start(@)]

-----------------------------------------------------------------------------
(* COMPONENT: client -> application plumbing *)

(******* State: BEGIN_READING_CONNECT_PASSWORD *******)

\* the comparison StaticString(data, len) == options.requestSocketPassword
passwordEqualsMutantFirstByte(data) ==
    Len(data) > 0 /\ data[1] = requestSocketPassword[1]

passwordEquals(data) == data = requestSocketPassword

\* RequestHandler::checkConnectPassword
checkConnectPasswordMutantTimerRuns(w, id, data) ==
    LET w0 == [w EXCEPT !.hist[id].passwordChecks = Append(@, data)]
    IN  IF passwordEquals(data)
        THEN [w0 EXCEPT !.cl[id] =
                 [freeBufferedConnectPassword(@) EXCEPT !.state = "READING_HEADER"]]
        ELSE disconnectWithError(w0, id, "wrong connect password")

checkConnectPassword(w, id, data) ==
    LET w0 == [w EXCEPT !.hist[id].passwordChecks = Append(@, data)]
    IN  IF passwordEquals(data)
        THEN [w0 EXCEPT !.cl[id] =
                 [freeBufferedConnectPassword(@) EXCEPT
                      !.state = "READING_HEADER",
                      !.timeoutTimer = FALSE]]
        ELSE disconnectWithError(w0, id, "wrong connect password")

\* RequestHandler::state_beginReadingConnectPassword_onClientData
state_beginReadingConnectPassword_onClientData(w, id, data) ==
    IF Len(data) >= Len(requestSocketPassword)
    THEN [w |-> checkConnectPassword(w, id, Take(data, Len(requestSocketPassword))),
          n |-> Len(requestSocketPassword)]
    ELSE [w |-> [w EXCEPT !.cl[id].bufferedConnectPassword =
                              [allocated |-> TRUE, data |-> data,
                               alreadyRead |-> Len(data)],
                          !.cl[id].state = "STILL_READING_CONNECT_PASSWORD"],
          n |-> Len(data)]

(******* State: STILL_READING_CONNECT_PASSWORD *******)

\* RequestHandler::state_stillReadingConnectPassword_onClientData
stillReadingMutantConsumesAll(w, id, data) ==
    LET b == w.cl[id].bufferedConnectPassword
        consumed == Min(Len(data), Len(requestSocketPassword) - b.alreadyRead)
        b1 == [b EXCEPT !.data = Take(b.data, b.alreadyRead) \o Take(data, consumed),
                        !.alreadyRead = b.alreadyRead + consumed]
        w1 == [w EXCEPT !.cl[id].bufferedConnectPassword = b1]
    IN  [w |-> IF b1.alreadyRead = Len(requestSocketPassword)
               THEN checkConnectPassword(w1, id,
                        Take(b1.data, Len(requestSocketPassword)))
               ELSE w1,
         n |-> Len(data)]

state_stillReadingConnectPassword_onClientData(w, id, data) ==
    LET b == w.cl[id].bufferedConnectPassword
        consumed == Min(Len(data), Len(requestSocketPassword) - b.alreadyRead)
        b1 == [b EXCEPT !.data = Take(b.data, b.alreadyRead) \o Take(data, consumed),
                        !.alreadyRead = b.alreadyRead + consumed]
        w1 == [w EXCEPT !.cl[id].bufferedConnectPassword = b1]
    IN  [w |-> IF b1.alreadyRead = Len(requestSocketPassword)
               THEN checkConnectPassword(w1, id,
                        Take(b1.data, Len(requestSocketPassword)))
               ELSE w1,
         n |-> consumed]

(******* State: READING_HEADER *******)

\* a move that would let the HTTP_ value win over the plain key
moveHttpHeaderMutantOverwrites(map, httpKey, key) ==
    IF httpKey \in DOMAIN map
    THEN MapErase(MapSet(map, key, map[httpKey]), httpKey)
    ELSE map

\* one of the two rewrites of modifyClientHeaders
moveHttpHeader(map, httpKey, key) ==
    IF httpKey \in DOMAIN map
    THEN IF key \notin DOMAIN map
         THEN MapErase(MapSet(map, key, map[httpKey]), httpKey)
         ELSE MapErase(map, httpKey)
    ELSE map

\* RequestHandler::modifyClientHeaders: the map afterwards, and `modified`
modifyClientHeaders(map) ==
    [map |-> moveHttpHeader(
                 moveHttpHeader(map, "HTTP_CONTENT_LENGTH", "CONTENT_LENGTH"),
                 "HTTP_CONTENT_TYPE", "CONTENT_TYPE"),
     modified |-> "HTTP_CONTENT_LENGTH" \in DOMAIN map
                  \/ "HTTP_CONTENT_TYPE" \in DOMAIN map]

(******* State: CHECKING_OUT_SESSION *******)

\* fillPoolOption
fillPoolOption(c, current, name) ==
    IF name \in DOMAIN c.scgiParser.map THEN c.scgiParser.map[name] ELSE current

\* state_checkingOutSession_verifyInvariants: the two assertions
state_checkingOutSession_verifyInvariants(c) ==
    ~c.clientInput.started /\ ~c.clientBodyBuffer.started

\* the bytes sendHeaderToApp hands to gatheredWrite
HeaderFrame(c) ==
    <<"size">> \o c.scgiParser.headerData
               \o <<"PASSENGER_CONNECT_PASSWORD", "session connect password">>

\* gatheredWrite(fd, data, count, restBuffer): what is in restBuffer is written
\* first, what the socket does not take is left in restBuffer
gatheredWrite(w, id, data) ==
    LET all == w.cl[id].appOutputBuffer \o data
        r == appWrite(w, id, all)
        w1 == r.w
    IN  [w |-> IF r.ret = -1
               THEN IF r.errno = "EAGAIN"
                    THEN [w1 EXCEPT !.cl[id].appOutputBuffer = all]
                    ELSE w1
               ELSE [w1 EXCEPT !.cl[id].appOutputBuffer = Drop(all, r.ret)],
         ret |-> r.ret, errno |-> r.errno]

(******* State: FORWARDING_BODY_TO_APP *******)

\* a sendBodyToApp that would put the client back into the checkout phase
sendBodyToAppMutantRewinds(w, id) ==
    IF w.cl[id].requestBodyIsBuffered
    THEN [w EXCEPT !.cl[id].state = "CHECKING_OUT_SESSION",
                   !.cl[id].clientBodyBuffer = FBP_start(@)]
    ELSE [w EXCEPT !.cl[id].state = "CHECKING_OUT_SESSION",
                   !.cl[id].clientInput = EBI_start(@)]

\* RequestHandler::sendBodyToApp
sendBodyToApp(w, id) ==
    LET c == w.cl[id] IN
    IF c.appOutputBuffer # <<>>
    THEN Crash(w, "assert: sendBodyToApp: appOutputBuffer.empty()")
    ELSE IF c.clientBodyBuffer.started
    THEN Crash(w, "assert: sendBodyToApp: !clientBodyBuffer->isStarted()")
    ELSE IF c.clientInput.started
    THEN Crash(w, "assert: sendBodyToApp: !clientInput->isStarted()")
    ELSE IF c.appOutputWatcher
    THEN Crash(w, "assert: sendBodyToApp: !appOutputWatcher.is_active()")
    ELSE IF c.requestBodyIsBuffered
    THEN [w EXCEPT !.cl[id].state = "FORWARDING_BODY_TO_APP",
                   !.cl[id].clientBodyBuffer = FBP_start(@)]
    ELSE [w EXCEPT !.cl[id].state = "FORWARDING_BODY_TO_APP",
                   !.cl[id].clientInput = EBI_start(@)]

(******* State: SENDING_HEADER_TO_APP *******)

\* state_sendingHeaderToApp_verifyInvariants: the two assertions
state_sendingHeaderToApp_verifyInvariants(c) ==
    ~c.clientInput.started /\ ~c.clientBodyBuffer.started

\* RequestHandler::sendHeaderToApp
sendHeaderToApp(w, id) ==
    LET c == w.cl[id] IN
    IF c.clientInput.started
    THEN Crash(w, "assert: sendHeaderToApp: !clientInput->isStarted()")
    ELSE IF c.clientBodyBuffer.started
    THEN Crash(w, "assert: sendHeaderToApp: !clientBodyBuffer->isStarted()")
    ELSE
    LET g == gatheredWrite(w, id, HeaderFrame(c))
    IN  IF g.ret = -1 /\ g.errno # "EAGAIN"
        THEN disconnectWithAppSocketWriteError(g.w, id)
        ELSE IF g.w.cl[id].appOutputBuffer # <<>>
        THEN [g.w EXCEPT !.cl[id].state = "SENDING_HEADER_TO_APP",
                         !.cl[id].appOutputWatcher = TRUE]
        ELSE sendBodyToApp(g.w, id)

\* a flush of the header that would leave the worker-writable watcher active
sendingHeaderMutantKeepsWatcher(w, id) ==
    LET g == gatheredWrite(w, id, <<>>)
    IN  IF g.ret = -1
        THEN IF g.errno # "EAGAIN" /\ g.errno # "EPIPE"
             THEN disconnectWithAppSocketWriteError(g.w, id)
             ELSE g.w
        ELSE IF g.w.cl[id].appOutputBuffer = <<>>
        THEN sendBodyToApp(g.w, id)
        ELSE g.w

\* RequestHandler::state_sendingHeaderToApp_onAppOutputWritable
state_sendingHeaderToApp_onAppOutputWritable(w, id) ==
    IF ~state_sendingHeaderToApp_verifyInvariants(w.cl[id])
    THEN Crash(w, "assert: state_sendingHeaderToApp_verifyInvariants")
    ELSE
    LET g == gatheredWrite(w, id, <<>>)
    IN  IF g.ret = -1
        THEN IF g.errno # "EAGAIN" /\ g.errno # "EPIPE"
             THEN disconnectWithAppSocketWriteError(g.w, id)
             ELSE g.w
        ELSE IF g.w.cl[id].appOutputBuffer = <<>>
        THEN sendBodyToApp([g.w EXCEPT !.cl[id].appOutputWatcher = FALSE], id)
        ELSE g.w

(******* State: CHECKING_OUT_SESSION, continued *******)

\* How the pool and the session answer is the environment's choice:
\* w.io.script lists, for the successive asyncGet calls of one event, "async"
\* (the callback comes later, or on another thread and is then queued with
\* runAsync), or the callback that fires inside asyncGet: "ok" (a session
\* whose initiate() succeeds), "initfail" (a session whose initiate() throws
\* SystemException), "err" (a SpawnException) or "errOther" (an exception of
\* another class).  dynamic_pointer_cast<SpawnException> of the latter gives
\* an empty pointer that is then dereferenced: w.io.ub is what that does.

validSessionMutantNoSession(initiated) == NoSession

validSession(initiated) == [null |-> FALSE, initiated |-> initiated]

RECURSIVE asyncGet(_, _)
RECURSIVE sessionCheckedOut(_, _, _, _)
RECURSIVE sessionCheckedOut_real(_, _, _)
RECURSIVE initiateSession(_, _, _)

\* pool->asyncGet(options, bind(sessionCheckedOut, this, client, _1, _2))
asyncGet(w, id) ==
    LET w1 == [w EXCEPT !.hist[id].asyncGets = @ + 1,
                        !.hist[id].getOptions = @ \cup {w.cl[id].options}] IN
    IF w.io.script = <<>> \/ Head(w.io.script) = "async"
    THEN [w1 EXCEPT !.net[id].pendingGets = @ + 1, !.io.script = <<>>]
    ELSE sessionCheckedOut([w1 EXCEPT !.io.script = Tail(@)], id, "eventLoop",
                           Head(w.io.script))

\* a callback that would run the real handler on whatever thread calls it
sessionCheckedOutMutantNoHop(w, id, thread, result) ==
    sessionCheckedOut_real(w, id, result)

\* RequestHandler::sessionCheckedOut, called on `thread`; libev->runAsync
\* appends the bound sessionCheckedOut_real to the queue of the event loop
sessionCheckedOut(w, id, thread, result) ==
    IF thread # "eventLoop"
    THEN [w EXCEPT !.net[id].runAsync = Append(@, result)]
    ELSE sessionCheckedOut_real(w, id, result)

\* RequestHandler::sessionCheckedOut_real
sessionCheckedOut_real(w, id, result) ==
    IF ~connected(w.cl[id]) THEN w
    ELSE IF ~state_checkingOutSession_verifyInvariants(w.cl[id])
    THEN Crash(w, "assert: state_checkingOutSession_verifyInvariants")
    ELSE
    LET w1 == [w EXCEPT !.cl[id].backgroundOperations = UIntDec(@),
                        !.cl[id].sessionCheckedOut = TRUE]
        w2 == [w1 EXCEPT !.hist[id].poolError = TRUE]
    IN  IF result = "err"
        THEN writeErrorResponse(w2, id)
        ELSE IF result = "errOther"
        THEN IF w.io.ub = "abort"
             THEN Crash(w2, "assert: shared_ptr::operator->: px != 0")
             ELSE Crash(w2, "SIGSEGV: e2->getErrorPage()")
        ELSE initiateSession(
                 [w1 EXCEPT !.cl[id].session = validSession(FALSE)],
                 id, result)

\* an initiateSession that would retry without a limit
initiateSessionMutantNoLimit(w, id, result) ==
    LET w1 == [w EXCEPT !.cl[id].sessionCheckoutTry = UIntInc(@),
                        !.hist[id].initiates = @ + 1,
                        !.hist[id].initFails =
                            IF result = "initfail" THEN @ + 1 ELSE @]
    IN
    IF result = "initfail"
    THEN LET w2 == asyncGet([w1 EXCEPT !.cl[id].sessionCheckedOut = FALSE], id)
         IN  IF ~w2.cl[id].sessionCheckedOut
             THEN [w2 EXCEPT !.cl[id].backgroundOperations = UIntInc(@)]
             ELSE w2
    ELSE sendHeaderToApp(
             [w1 EXCEPT !.cl[id].session = validSession(TRUE),
                        !.net[id].appSock = "ok",
                        !.cl[id].appInput = EBI_start(EBI_reset(@))],
             id)

\* RequestHandler::initiateSession
initiateSession(w, id, result) ==
    IF w.cl[id].state # "CHECKING_OUT_SESSION"
    THEN Crash(w, "assert: initiateSession: state == CHECKING_OUT_SESSION")
    ELSE
    LET w0 == [w EXCEPT !.cl[id].sessionCheckoutTry = UIntInc(@),
                        !.hist[id].initiates = @ + 1]
        w1 == IF result = "initfail"
              THEN [w0 EXCEPT !.hist[id].initFails = @ + 1] ELSE w0
    IN
    IF result = "initfail"
    THEN \* session->initiate() threw SystemException
         IF w1.cl[id].sessionCheckoutTry < 10
         THEN LET w2 == asyncGet([w1 EXCEPT !.cl[id].sessionCheckedOut = FALSE], id)
              IN  IF w2.crashed # "none" THEN w2
                  ELSE IF ~w2.cl[id].sessionCheckedOut
                  THEN [w2 EXCEPT !.cl[id].backgroundOperations = UIntInc(@)]
                  ELSE w2
         ELSE disconnectWithError(w1, id, "could not initiate a session")
    ELSE sendHeaderToApp(
             [w1 EXCEPT !.cl[id].session = validSession(TRUE),
                        !.net[id].appSock = "ok",
                        !.cl[id].appInput = EBI_start(EBI_reset(@))],
             id)

\* RequestHandler::checkoutSession
checkoutSession(w, id) ==
    LET c == w.cl[id]
        w1 == [w EXCEPT
                 !.cl[id].options =
                     [appRoot |-> fillPoolOption(c, @.appRoot, "PASSENGER_APP_ROOT"),
                      appType |-> fillPoolOption(c, @.appType, "PASSENGER_APP_TYPE"),
                      spawnMethod |->
                          fillPoolOption(c, @.spawnMethod, "PASSENGER_SPAWN_METHOD"),
                      startCommand |->
                          fillPoolOption(c, @.startCommand, "PASSENGER_START_COMMAND"),
                      loadShellEnvvars |->
                          fillPoolOption(c, @.loadShellEnvvars,
                                         "PASSENGER_LOAD_SHELL_ENVVARS")],
                 !.cl[id].state = "CHECKING_OUT_SESSION"]
        w2 == asyncGet(w1, id)
    IN  IF w2.crashed # "none" THEN w2
        ELSE IF ~w2.cl[id].sessionCheckedOut
        THEN [w2 EXCEPT !.cl[id].backgroundOperations = UIntInc(@)]
        ELSE w2

(******* State: READING_HEADER, continued *******)

\* a header reader that would give one message for every parser error
state_readingHeaderMutantOneMessage(w, id, data) ==
    LET f == ScgiFeed(w.cl[id].scgiParser, data, 0)
        w1 == [w EXCEPT !.cl[id].scgiParser = f.parser,
                        !.hist[id].headerFed = @ \o Take(data, f.consumed)]
    IN
    IF f.parser.state = "READING" THEN [w |-> w1, n |-> f.consumed]
    ELSE IF f.parser.state = "ERROR"
    THEN [w |-> disconnectWithError(w1, id, "invalid SCGI header"),
          n |-> f.consumed]
    ELSE
    LET m == modifyClientHeaders(f.parser.map)
        w2 == [w1 EXCEPT !.cl[id].scgiParser =
                   ScgiRebuildData([@ EXCEPT !.map = m.map], m.modified)]
    IN  IF getBoolOption(w2.cl[id], "PASSENGER_BUFFERING", FALSE)
        THEN [w |-> [w2 EXCEPT !.cl[id].state = "BUFFERING_REQUEST_BODY",
                               !.cl[id].requestBodyIsBuffered = TRUE],
              n |-> f.consumed]
        ELSE [w |-> checkoutSession(
                        [w2 EXCEPT !.cl[id].clientInput = EBI_stop(@)], id),
              n |-> f.consumed]

\* a header handler that would leave the client input running during checkout
state_readingHeaderMutantKeepsReading(w, id, data) ==
    LET f == ScgiFeed(w.cl[id].scgiParser, data, 0)
        w1 == [w EXCEPT !.cl[id].scgiParser = f.parser,
                        !.hist[id].headerFed = @ \o Take(data, f.consumed)]
    IN
    IF f.parser.state = "READING" THEN [w |-> w1, n |-> f.consumed]
    ELSE IF f.parser.state = "ERROR"
    THEN [w |-> IF f.parser.errorReason = "LIMIT_REACHED"
                THEN disconnectWithError(w1, id, "SCGI header too large")
                ELSE disconnectWithError(w1, id, "invalid SCGI header"),
          n |-> f.consumed]
    ELSE
    LET m == modifyClientHeaders(f.parser.map)
        w2 == [w1 EXCEPT !.cl[id].scgiParser =
                   ScgiRebuildData([@ EXCEPT !.map = m.map], m.modified)]
    IN  IF getBoolOption(w2.cl[id], "PASSENGER_BUFFERING", FALSE)
        THEN [w |-> [w2 EXCEPT !.cl[id].state = "BUFFERING_REQUEST_BODY",
                               !.cl[id].requestBodyIsBuffered = TRUE],
              n |-> f.consumed]
        ELSE [w |-> checkoutSession(w2, id), n |-> f.consumed]

\* RequestHandler::state_readingHeader_onClientData
state_readingHeader_onClientData(w, id, data) ==
    LET f == ScgiFeed(w.cl[id].scgiParser, data, 0)
        w1 == [w EXCEPT !.cl[id].scgiParser = f.parser,
                        !.hist[id].headerFed = @ \o Take(data, f.consumed)]
    IN
    IF f.parser.state = "READING" THEN [w |-> w1, n |-> f.consumed]
    ELSE IF f.parser.state = "ERROR"
    THEN [w |-> IF f.parser.errorReason = "LIMIT_REACHED"
                THEN disconnectWithError(w1, id, "SCGI header too large")
                ELSE disconnectWithError(w1, id, "invalid SCGI header"),
          n |-> f.consumed]
    ELSE
    LET m == modifyClientHeaders(f.parser.map)
        w2 == [w1 EXCEPT !.cl[id].scgiParser =
                   ScgiRebuildData([@ EXCEPT !.map = m.map], m.modified)]
    IN  IF getBoolOption(w2.cl[id], "PASSENGER_BUFFERING", FALSE)
        THEN [w |-> [w2 EXCEPT !.cl[id].state = "BUFFERING_REQUEST_BODY",
                               !.cl[id].requestBodyIsBuffered = TRUE],
              n |-> f.consumed]
        ELSE [w |-> checkoutSession(
                        [w2 EXCEPT !.cl[id].clientInput = EBI_stop(@)], id),
              n |-> f.consumed]

(******* State: BUFFERING_REQUEST_BODY *******)

\* state_bufferingRequestBody_verifyInvariants: the two assertions
state_bufferingRequestBody_verifyInvariants(c) ==
    c.requestBodyIsBuffered /\ ~c.clientBodyBuffer.started

\* RequestHandler::state_bufferingRequestBody_onClientData
state_bufferingRequestBody_onClientData(w, id, data) ==
    LET c == w.cl[id] IN
    IF ~state_bufferingRequestBody_verifyInvariants(c)
    THEN [w |-> Crash(w, "assert: state_bufferingRequestBody_verifyInvariants"),
          n |-> 0]
    ELSE IF FBP_isCommittingToDisk(c.clientBodyBuffer)
    THEN [w |-> Crash(w, "assert: onClientData: !clientBodyBuffer->isCommittingToDisk()"),
          n |-> 0]
    ELSE
    LET w1 == [w EXCEPT !.cl[id].clientBodyBuffer = FBP_write(@, data)]
    IN  [w |-> IF ~FBP_writeAccepted(w1.cl[id].clientBodyBuffer)
               THEN [w1 EXCEPT !.cl[id].backgroundOperations = UIntInc(@),
                               !.cl[id].clientInput = EBI_stop(@)]
               ELSE w1,
         n |-> Len(data)]

\* RequestHandler::state_bufferingRequestBody_onClientEof
state_bufferingRequestBody_onClientEof(w, id) ==
    IF ~state_bufferingRequestBody_verifyInvariants(w.cl[id])
    THEN Crash(w, "assert: state_bufferingRequestBody_verifyInvariants")
    ELSE checkoutSession([w EXCEPT !.cl[id].clientBodyBuffer = FBP_end(@)], id)

\* RequestHandler::state_bufferingRequestBody_onClientBodyBufferCommit
state_bufferingRequestBody_onClientBodyBufferCommit(w, id) ==
    IF ~state_bufferingRequestBody_verifyInvariants(w.cl[id])
    THEN Crash(w, "assert: state_bufferingRequestBody_verifyInvariants")
    ELSE IF w.cl[id].clientInput.started
    THEN Crash(w, "assert: onClientBodyBufferCommit: !clientInput->isStarted()")
    ELSE [w EXCEPT !.cl[id].backgroundOperations = UIntDec(@),
                   !.cl[id].clientInput = EBI_start(@)]

(******* State: FORWARDING_BODY_TO_APP, continued *******)

\* RequestHandler::state_forwardingBodyToApp_onClientData
forwardingMutantAcksAll(w, id, data) ==
    IF w.cl[id].requestBodyIsBuffered
    THEN [w |-> Crash(w, "assert: onClientData: !requestBodyIsBuffered"), n |-> 0]
    ELSE
    LET r == appWrite(w, id, data)
        w1 == r.w
    IN  IF r.ret = -1
        THEN [w |-> IF r.errno = "EAGAIN"
                    THEN [w1 EXCEPT !.cl[id].clientInput = EBI_stop(@),
                                    !.cl[id].appOutputWatcher = TRUE]
                    ELSE IF r.errno = "EPIPE"
                    THEN [w1 EXCEPT !.cl[id].clientInput = EBI_stop(@),
                                    !.net[id].cliShutRd = TRUE]
                    ELSE disconnectWithAppSocketWriteError(w1, id),
              n |-> 0]
        ELSE [w |-> w1, n |-> Len(data)]

\* a handler that would treat EPIPE as any other write error
forwardingMutantEpipeDisconnects(w, id, data) ==
    LET r == appWrite(w, id, data)
        w1 == r.w
    IN  IF r.ret = -1
        THEN [w |-> IF r.errno = "EAGAIN"
                    THEN [w1 EXCEPT !.cl[id].clientInput = EBI_stop(@),
                                    !.cl[id].appOutputWatcher = TRUE]
                    ELSE disconnectWithAppSocketWriteError(w1, id),
              n |-> 0]
        ELSE [w |-> w1, n |-> r.ret]

state_forwardingBodyToApp_onClientData(w, id, data) ==
    IF w.cl[id].requestBodyIsBuffered
    THEN [w |-> Crash(w, "assert: onClientData: !requestBodyIsBuffered"), n |-> 0]
    ELSE
    LET r == appWrite(w, id, data)
        w1 == r.w
    IN  IF r.ret = -1
        THEN [w |-> IF r.errno = "EAGAIN"
                    THEN [w1 EXCEPT !.cl[id].clientInput = EBI_stop(@),
                                    !.cl[id].appOutputWatcher = TRUE]
                    ELSE IF r.errno = "EPIPE"
                    THEN [w1 EXCEPT !.cl[id].clientInput = EBI_stop(@),
                                    !.net[id].cliShutRd = TRUE]
                    ELSE disconnectWithAppSocketWriteError(w1, id),
              n |-> 0]
        ELSE [w |-> w1, n |-> r.ret]

\* RequestHandler::state_forwardingBodyToApp_onClientEof
state_forwardingBodyToApp_onClientEof(w, id) ==
    IF w.cl[id].requestBodyIsBuffered
    THEN Crash(w, "assert: onClientEof: !requestBodyIsBuffered")
    ELSE [w EXCEPT !.cl[id].clientInput = EBI_stop(@),
                   !.net[id].appShutWr = TRUE]

\* RequestHandler::state_forwardingBodyToApp_onAppOutputWritable
state_forwardingBodyToApp_onAppOutputWritable(w, id) ==
    IF w.cl[id].requestBodyIsBuffered
    THEN Crash(w, "assert: onAppOutputWritable: !requestBodyIsBuffered")
    ELSE [w EXCEPT !.cl[id].clientInput = EBI_start(@),
                   !.cl[id].clientOutputWatcher = FALSE]

\* RequestHandler::state_forwardingBodyToApp_onClientBodyBufferData
state_forwardingBodyToApp_onClientBodyBufferData(w, id, data) ==
    IF ~w.cl[id].requestBodyIsBuffered
    THEN Crash(w, "assert: onClientBodyBufferData: requestBodyIsBuffered")
    ELSE
    LET r == appWrite(w, id, data)
        w1 == r.w
    IN  IF r.ret = -1
        THEN LET w2 == IF r.errno = "EAGAIN"
                       THEN [w1 EXCEPT !.cl[id].clientBodyBuffer = FBP_stop(@),
                                       !.cl[id].appOutputWatcher = TRUE]
                       ELSE IF r.errno = "EPIPE"
                       THEN [w1 EXCEPT !.net[id].cliShutRd = TRUE]
                       ELSE disconnectWithAppSocketWriteError(w1, id)
             IN  [w2 EXCEPT !.cl[id].clientBodyBuffer = FBP_consumed(@, 0, TRUE)]
        ELSE [w1 EXCEPT !.cl[id].clientBodyBuffer = FBP_consumed(@, r.ret, FALSE)]

\* RequestHandler::state_forwardingBodyToApp_onClientBodyBufferEnd
bufferEndMutantNoShutdown(w, id) ==
    IF ~w.cl[id].requestBodyIsBuffered
    THEN Crash(w, "assert: onClientBodyBufferEnd: requestBodyIsBuffered")
    ELSE w

state_forwardingBodyToApp_onClientBodyBufferEnd(w, id) ==
    IF ~w.cl[id].requestBodyIsBuffered
    THEN Crash(w, "assert: onClientBodyBufferEnd: requestBodyIsBuffered")
    ELSE [w EXCEPT !.net[id].appShutWr = TRUE]

-----------------------------------------------------------------------------
(* COMPONENT: client acceptor and the dispatch of events by client state *)

\* the descriptor accept() hands out: the lowest one no client holds
NextFd(w) ==
    CHOOSE f \in 1..(Cardinality(DOMAIN w.cl) + 1) :
        /\ \A i \in DOMAIN w.cl : w.cl[i].fd # f
        /\ \A g \in 1..(f - 1) : \E i \in DOMAIN w.cl : w.cl[i].fd = g

\* the Client object make_shared<Client>() creates next
NextId(w) == CHOOSE i \in DOMAIN w.cl :
                 ~w.hist[i].created /\ \A j \in DOMAIN w.cl : j < i => w.hist[j].created

NewNet == [cliSock |-> "ok", cliShutRd |-> FALSE,
           appSock |-> "none", appShutWr |-> FALSE, pendingGets |-> 0,
           runAsync |-> <<>>]

NewHist == [created |-> FALSE, sent |-> <<>>, eofRead |-> FALSE,
            passwordChecks |-> <<>>, headerFed |-> <<>>, asyncGets |-> 0,
            appRecv |-> <<>>, appSent |-> <<>>, appEof |-> FALSE,
            pipeWritten |-> <<>>, cliRecv |-> <<>>, lastError |-> "none",
            poolError |-> FALSE, getOptions |-> {}, initiates |-> 0,
            initFails |-> 0]

\* an onAcceptable that would go on until the listener has nothing left
RECURSIVE onAcceptableMutantNoLimit(_, _, _, _)
onAcceptableMutantNoLimit(w, pending, fatal, count) ==
    IF pending = 0
    THEN IF fatal THEN Crash(w, "SystemException: Cannot accept client") ELSE w
    ELSE LET id == CHOOSE i \in DOMAIN w.cl :
                       ~w.hist[i].created
                       /\ \A j \in DOMAIN w.cl : j < i => w.hist[j].created
             fd == NextFd(w)
             w1 == [w EXCEPT !.cl[id] = associate(@, fd),
                             !.hist[id].created = TRUE,
                             !.clients = w.clients \cup {<<fd, id>>}]
         IN  onAcceptableMutantNoLimit(w1, pending - 1, fatal, count + 1)

\* RequestHandler::onAcceptable: `pending` connections wait on the listener;
\* the accept after the last of them fails with EAGAIN, or with another errno
\* when `fatal`
RECURSIVE onAcceptable(_, _, _, _)
onAcceptable(w, pending, fatal, count) ==
    IF ~(count < 10) THEN w
    ELSE IF pending = 0
    THEN IF fatal THEN Crash(w, "SystemException: Cannot accept client") ELSE w
    ELSE LET id == NextId(w)
             fd == NextFd(w)
             w1 == [w EXCEPT !.cl[id] = associate(@, fd),
                             !.hist[id].created = TRUE]
             w2 == [w1 EXCEPT !.clients = TableInsert(@, fd, id)]
         IN  onAcceptable(w2, pending - 1, fatal, count + 1)

\* RequestHandler::onClientEof
onClientEof(w, id) ==
    CASE w.cl[id].state = "BUFFERING_REQUEST_BODY" ->
             state_bufferingRequestBody_onClientEof(w, id)
      [] w.cl[id].state = "FORWARDING_BODY_TO_APP" ->
             state_forwardingBodyToApp_onClientEof(w, id)
      [] OTHER -> disconnect(w, id)

\* RequestHandler::onClientRealData: the loop over the chunk
RECURSIVE onClientRealData(_, _, _, _)
onClientRealData(w, id, buf, consumed) ==
    IF ~(consumed < Len(buf) /\ connected(w.cl[id]) /\ w.cl[id].clientInput.started)
       \/ w.crashed # "none"
    THEN [w |-> w, n |-> consumed]
    ELSE
    LET data == Drop(buf, consumed)
        st == w.cl[id].state
        r == CASE st = "BEGIN_READING_CONNECT_PASSWORD" ->
                      state_beginReadingConnectPassword_onClientData(w, id, data)
               [] st = "STILL_READING_CONNECT_PASSWORD" ->
                      state_stillReadingConnectPassword_onClientData(w, id, data)
               [] st = "READING_HEADER" ->
                      state_readingHeader_onClientData(w, id, data)
               [] st = "BUFFERING_REQUEST_BODY" ->
                      state_bufferingRequestBody_onClientData(w, id, data)
               [] st = "FORWARDING_BODY_TO_APP" ->
                      state_forwardingBodyToApp_onClientData(w, id, data)
               [] OTHER -> [w |-> Crash(w, "abort: onClientRealData"), n |-> 0]
    IN  onClientRealData(r.w, id, buf, consumed + r.n)

\* RequestHandler::onClientInputData: the world afterwards and the bytes consumed
onClientInputData(w, id, data) ==
    IF ~connected(w.cl[id]) THEN [w |-> w, n |-> 0]
    ELSE IF data = <<>> THEN [w |-> onClientEof(w, id), n |-> 0]
    ELSE onClientRealData(w, id, data, 0)

\* RequestHandler::onClientInputError
onClientInputError(w, id, errnoCode) ==
    IF ~connected(w.cl[id]) THEN w
    ELSE IF errnoCode = "ECONNRESET" THEN onClientEof(w, id)
    ELSE disconnectWithError(w, id, "client socket read error")

\* RequestHandler::onClientBodyBufferData
onClientBodyBufferData(w, id, data) ==
    IF ~connected(w.cl[id]) THEN w
    ELSE IF w.cl[id].state = "FORWARDING_BODY_TO_APP"
    THEN state_forwardingBodyToApp_onClientBodyBufferData(w, id, data)
    ELSE Crash(w, "abort: onClientBodyBufferData")

\* RequestHandler::onClientBodyBufferError
onClientBodyBufferError(w, id) ==
    IF ~connected(w.cl[id]) THEN w
    ELSE disconnectWithError(w, id, "client body buffer error")

\* RequestHandler::onClientBodyBufferEnd
onClientBodyBufferEnd(w, id) ==
    IF ~connected(w.cl[id]) THEN w
    ELSE IF w.cl[id].state = "FORWARDING_BODY_TO_APP"
    THEN state_forwardingBodyToApp_onClientBodyBufferEnd(w, id)
    ELSE Crash(w, "abort: onClientBodyBufferEnd")

\* RequestHandler::onClientBodyBufferCommit
onClientBodyBufferCommit(w, id) ==
    IF ~connected(w.cl[id]) THEN w
    ELSE IF w.cl[id].state = "BUFFERING_REQUEST_BODY"
    THEN state_bufferingRequestBody_onClientBodyBufferCommit(w, id)
    ELSE Crash(w, "abort: onClientBodyBufferCommit")

\* RequestHandler::onAppOutputWritable
onAppOutputWritable(w, id) ==
    IF ~connected(w.cl[id]) THEN w
    ELSE IF w.cl[id].state = "SENDING_HEADER_TO_APP"
    THEN state_sendingHeaderToApp_onAppOutputWritable(w, id)
    ELSE IF w.cl[id].state = "FORWARDING_BODY_TO_APP"
    THEN state_forwardingBodyToApp_onAppOutputWritable(w, id)
    ELSE Crash(w, "abort: onAppOutputWritable")

\* RequestHandler::onTimeout
onTimeout(w, id) ==
    IF ~connected(w.cl[id]) THEN w
    ELSE IF w.cl[id].state \in {"BEGIN_READING_CONNECT_PASSWORD",
                                "STILL_READING_CONNECT_PASSWORD"}
    THEN disconnectWithError(w, id, "no connect password received within timeout")
    ELSE disconnectWithError(w, id, "timeout")

-----------------------------------------------------------------------------
(* What the environment may do *)

\* with several clients on the event loop each of them is given fewer choices
Crowded == Cardinality(DOMAIN cl) > 1

\* what a client may send: a password attempt, a header block, a body
BodyBytes == <<"b1", "b2", "b3", "b4">>
PasswordAttempts == {requestSocketPassword, <<"x", "e", "c">>, <<"s", "e", "x">>}
HeaderBlocks == {<<",">>, <<"PASSENGER_BUFFERING=true", ",">>,
                 <<"PASSENGER_BUFFERING=yes", ",">>,
                 <<"PASSENGER_PRINT_STATUS_LINE=false", "HTTP_CONTENT_LENGTH=2", ",">>,
                 <<"!">>, <<"#">>}
Requests ==
    IF Crowded
    THEN {requestSocketPassword \o <<",">>, requestSocketPassword \o <<"!">>,
          <<"x", "e", "c", ",">>}
    ELSE {requestSocketPassword \o h \o Take(BodyBytes, n) :
              h \in HeaderBlocks, n \in 0..MaxBody}
         \cup {p \o <<",">> : p \in PasswordAttempts}

\* what a worker may answer
Responses ==
    IF Crowded
    THEN {<<"Status: 200 OK", "E">>}
    ELSE {<<"Status: 200", "E", "r1">>,
          <<"h", "Status: 200 OK", "E", "r1">>,
          <<"h", "E">>,
          <<"?">>}

\* the next chunks a peer may deliver after `sofar`
NextChunks(sofar, streams) ==
    UNION {{SubSeq(s, Len(sofar) + 1, k) :
                k \in (IF Crowded THEN Len(s) ELSE Len(sofar) + 1)..Len(s)} :
              s \in {t \in streams : IsPrefix(sofar, t) /\ t # sofar}}

\* how the pool answers the asyncGet calls of one event
PoolScripts ==
    {<<"async">>, <<"ok">>, <<"err">>, <<"errOther">>}
    \cup (IF Crowded THEN {}
          ELSE {<<"initfail", "ok">>, <<"initfail", "async">>,
                [i \in 1..10 |-> "initfail"]})
\* what the pool passes to a callback it calls later
PoolResults == {Head(script) : script \in PoolScripts} \ {"async"}
\* how a socket answers the writes of one event
SockChoices ==
    {[fail |-> "none", cap |-> k] : k \in -1..(IF Crowded THEN -1 ELSE MaxCap)}
    \cup {[fail |-> f, cap |-> 0] : f \in {"epipe", "error"}}
Unused == [fail |-> "none", cap |-> 0]

\* the choices an event is given: only those its handler can come to consult
IOs(pool, app, cli) ==
    {io \in [script : IF pool THEN PoolScripts ELSE {<<>>},
             app : IF app THEN SockChoices ELSE {Unused},
             cli : IF cli THEN SockChoices ELSE {Unused},
             ub : IF pool THEN {"abort", "segv"} ELSE {"abort"}] :
        \* a session is written to only if one is or gets checked out, and
        \* the empty pointer is dereferenced only if the pool gives "errOther"
        pool => /\ (io.script[Len(io.script)] \in {"async", "err", "errOther"} /\ app
                       => io.app = [fail |-> "none", cap |-> -1])
                /\ (io.script[Len(io.script)] # "errOther" => io.ub = "abort")}

BeforeCheckout(st) == st \in {"BEGIN_READING_CONNECT_PASSWORD",
                              "STILL_READING_CONNECT_PASSWORD", "READING_HEADER"}

-----------------------------------------------------------------------------
(* The state machine *)

\* the world an event handler starts in
W(io) == [clients |-> clients, cl |-> cl, net |-> net, hist |-> hist,
          crashed |-> crashed, io |-> io]

Commit(w) ==
    \E after \in {w} :
        /\ clients' = after.clients
        /\ cl' = after.cl
        /\ net' = after.net
        /\ hist' = after.hist
        /\ crashed' = after.crashed

Running == crashed = "none"

Init ==
    /\ clients = {}
    /\ cl = [id \in SingleIds |-> NewClient]
    /\ net = [id \in SingleIds |-> NewNet]
    /\ hist = [id \in SingleIds |-> NewHist]
    /\ crashed = "none"

\* two clients share the event loop
TwoIds == {1, 2}
InitTwo ==
    /\ clients = {}
    /\ cl = [id \in TwoIds |-> NewClient]
    /\ net = [id \in TwoIds |-> NewNet]
    /\ hist = [id \in TwoIds |-> NewHist]
    /\ crashed = "none"

\* more clients than one listener event accepts
MaxClients == 11
ManyIds == 1..MaxClients
InitMany ==
    /\ clients = {}
    /\ cl = [id \in ManyIds |-> NewClient]
    /\ net = [id \in ManyIds |-> NewNet]
    /\ hist = [id \in ManyIds |-> NewHist]
    /\ crashed = "none"

\* the listener is readable
Accept ==
    /\ Running
    /\ \E i \in DOMAIN cl : ~hist[i].created
    /\ \E pending \in 1..Cardinality({i \in DOMAIN cl : ~hist[i].created}),
         fatal \in BOOLEAN, io \in IOs(FALSE, FALSE, FALSE) :
           Commit(onAcceptable(W(io), pending, fatal, 0))

\* clientInput reads a chunk from the client socket
ClientInputReadable(id) ==
    /\ Running
    /\ cl[id].clientInput.started /\ cl[id].clientInput.buffer = <<>>
    /\ ~hist[id].eofRead /\ ~net[id].cliShutRd
    /\ \E data \in NextChunks(hist[id].sent, Requests),
         io \in IOs(BeforeCheckout(cl[id].state),
                    cl[id].state # "BUFFERING_REQUEST_BODY", FALSE) :
         \E r \in {onClientInputData([W(io) EXCEPT !.hist[id].sent = @ \o data],
                                     id, data)} :
             Commit([r.w EXCEPT !.cl[id].clientInput.buffer = Drop(data, r.n)])

\* clientInput hands the unconsumed tail of the last chunk to the handler again
ClientInputTick(id) ==
    /\ Running
    /\ cl[id].clientInput.started /\ cl[id].clientInput.buffer # <<>>
    /\ \E io \in IOs(BeforeCheckout(cl[id].state),
                    cl[id].state # "BUFFERING_REQUEST_BODY", FALSE) :
         LET data == cl[id].clientInput.buffer
             r == onClientInputData(W(io), id, data)
         IN  Commit([r.w EXCEPT !.cl[id].clientInput.buffer = Drop(data, r.n)])

\* clientInput reads end-of-file: it pauses itself and reports empty data
ClientInputEof(id) ==
    /\ Running
    /\ cl[id].clientInput.started /\ cl[id].clientInput.buffer = <<>>
    /\ ~hist[id].eofRead
    /\ \E io \in IOs(cl[id].state = "BUFFERING_REQUEST_BODY",
                    cl[id].state = "BUFFERING_REQUEST_BODY", FALSE) :
         LET w0 == [W(io) EXCEPT !.hist[id].eofRead = TRUE,
                                 !.cl[id].clientInput = EBI_stop(@)]
         IN  Commit(onClientInputData(w0, id, <<>>).w)

\* clientInput fails to read: it pauses itself and reports the error
ClientInputError(id) ==
    /\ Running
    /\ cl[id].clientInput.started /\ cl[id].clientInput.buffer = <<>>
    /\ ~hist[id].eofRead
    /\ \E errnoCode \in {"ECONNRESET", "EIO"},
         io \in IOs(cl[id].state = "BUFFERING_REQUEST_BODY",
                    cl[id].state = "BUFFERING_REQUEST_BODY", FALSE) :
         LET w0 == [W(io) EXCEPT !.hist[id].eofRead = TRUE,
                                 !.cl[id].clientInput = EBI_stop(@)]
         IN  Commit(onClientInputError(w0, id, errnoCode))

\* the timer fires
Timeout(id) ==
    /\ Running
    /\ cl[id].timeoutTimer
    /\ \E io \in IOs(FALSE, FALSE, FALSE) :
         Commit(onTimeout([W(io) EXCEPT !.cl[id].timeoutTimer = FALSE], id))

\* the pool calls a pending callback on the event-loop thread
PoolCallback(id) ==
    /\ Running
    /\ net[id].pendingGets > 0
    /\ \E io \in IOs(TRUE, TRUE, FALSE) :
         /\ Head(io.script) # "async"
         \* a pool that was asked again later keeps giving sessions that fail
         /\ cl[id].sessionCheckoutTry > 0
                => \A i \in DOMAIN io.script : io.script[i] \in {"initfail", "async"}
         /\ Commit(sessionCheckedOut(
                [W(io) EXCEPT !.net[id].pendingGets = @ - 1,
                              !.io.script = Tail(@)],
                id, "eventLoop", Head(io.script)))

\* the pool calls a pending callback on one of its own threads
PoolThreadCallback(id) ==
    /\ Running
    /\ net[id].pendingGets > 0
    /\ \E result \in PoolResults, io \in IOs(FALSE, FALSE, FALSE) :
         /\ cl[id].sessionCheckoutTry > 0 => result = "initfail"
         /\ Commit(sessionCheckedOut(
                [W(io) EXCEPT !.net[id].pendingGets = @ - 1],
                id, "pool", result))

\* the event loop runs the function that runAsync queued
RunAsync(id) ==
    /\ Running
    /\ net[id].runAsync # <<>>
    /\ \E io \in IOs(TRUE, TRUE, FALSE) :
         /\ Head(io.script) = Head(net[id].runAsync)
         /\ cl[id].sessionCheckoutTry > 0
                => \A i \in DOMAIN io.script : io.script[i] \in {"initfail", "async"}
         /\ Commit(sessionCheckedOut_real(
                [W(io) EXCEPT !.net[id].runAsync = Tail(@),
                              !.io.script = Tail(@)],
                id, Head(net[id].runAsync)))

\* the worker socket is writable (or in error) while its watcher is active
AppOutputWritable(id) ==
    /\ Running
    /\ cl[id].appOutputWatcher
    /\ \E io \in IOs(FALSE, TRUE, FALSE) :
         /\ io.app.cap # 0
         /\ Commit(onAppOutputWritable(W(io), id))

\* appInput reads a chunk of the response; there is something to read only
\* once a session has given appInput a socket
AppInputReadable(id) ==
    /\ Running
    /\ cl[id].appInput.started /\ ~hist[id].appEof
    /\ net[id].appSock # "none"
    /\ \E data \in NextChunks(hist[id].appSent, Responses),
         io \in IOs(FALSE, FALSE, FALSE) :
         Commit(onAppInputData([W(io) EXCEPT !.hist[id].appSent = @ \o data],
                               id, data))

\* appInput reads end-of-file: it pauses itself and reports empty data
AppInputEof(id) ==
    /\ Running
    /\ cl[id].appInput.started /\ ~hist[id].appEof
    /\ net[id].appSock # "none"
    /\ \E io \in IOs(FALSE, FALSE, FALSE) :
         Commit(onAppInputData([W(io) EXCEPT !.hist[id].appEof = TRUE,
                                             !.cl[id].appInput = EBI_stop(@)],
                               id, <<>>))

\* appInput fails to read: it pauses itself and reports the error
AppInputError(id) ==
    /\ Running
    /\ cl[id].appInput.started /\ ~hist[id].appEof
    /\ net[id].appSock # "none"
    /\ \E errorCode \in {"ECONNRESET", "EIO"}, io \in IOs(FALSE, FALSE, FALSE) :
         Commit(onAppInputError([W(io) EXCEPT !.hist[id].appEof = TRUE,
                                              !.cl[id].appInput = EBI_stop(@)],
                                id, errorCode))

\* the body buffer delivers what it holds
ClientBodyBufferData(id) ==
    /\ Running
    /\ cl[id].clientBodyBuffer.started /\ cl[id].clientBodyBuffer.buf # <<>>
    /\ \E io \in IOs(FALSE, TRUE, FALSE) :
         Commit(onClientBodyBufferData(W(io), id, cl[id].clientBodyBuffer.buf))

\* the body buffer has delivered everything that was written before end()
ClientBodyBufferEnd(id) ==
    /\ Running
    /\ cl[id].clientBodyBuffer.started /\ cl[id].clientBodyBuffer.buf = <<>>
    /\ cl[id].clientBodyBuffer.ended /\ ~cl[id].clientBodyBuffer.endReached
    /\ \E io \in IOs(FALSE, FALSE, FALSE) :
         Commit(onClientBodyBufferEnd(
             [W(io) EXCEPT !.cl[id].clientBodyBuffer.endReached = TRUE], id))

\* the body buffer has written its data to the file
ClientBodyBufferCommit(id) ==
    /\ Running
    /\ cl[id].clientBodyBuffer.committing
    /\ \E io \in IOs(FALSE, FALSE, FALSE) :
         Commit(onClientBodyBufferCommit(
             [W(io) EXCEPT !.cl[id].clientBodyBuffer.committing = FALSE], id))

\* the body buffer fails to write to its file
ClientBodyBufferError(id) ==
    /\ Running
    /\ cl[id].clientBodyBuffer.committing
    /\ \E io \in IOs(FALSE, FALSE, FALSE) :
         Commit(onClientBodyBufferError(
             [W(io) EXCEPT !.cl[id].clientBodyBuffer.committing = FALSE], id))

\* the client output pipe delivers what it holds
ClientOutputPipeData(id) ==
    /\ Running
    /\ cl[id].clientOutputPipe.started /\ cl[id].clientOutputPipe.buf # <<>>
    /\ \E io \in IOs(FALSE, FALSE, TRUE) :
         Commit(onClientOutputPipeData(W(io), id, cl[id].clientOutputPipe.buf))

\* the client output pipe has delivered everything that was written before end()
ClientOutputPipeEnd(id) ==
    /\ Running
    /\ cl[id].clientOutputPipe.started /\ cl[id].clientOutputPipe.buf = <<>>
    /\ cl[id].clientOutputPipe.ended /\ ~cl[id].clientOutputPipe.endReached
    /\ \E io \in IOs(FALSE, FALSE, FALSE) :
         Commit(onClientOutputPipeEnd(
             [W(io) EXCEPT !.cl[id].clientOutputPipe.endReached = TRUE], id))

\* the client output pipe has written its data to the file
ClientOutputPipeCommit(id) ==
    /\ Running
    /\ cl[id].clientOutputPipe.committing
    /\ \E io \in IOs(FALSE, FALSE, FALSE) :
         Commit(onClientOutputPipeCommit(
             [W(io) EXCEPT !.cl[id].clientOutputPipe.committing = FALSE], id))

\* the client output pipe fails to write to its file
ClientOutputPipeError(id) ==
    /\ Running
    /\ cl[id].clientOutputPipe.committing
    /\ \E io \in IOs(FALSE, FALSE, FALSE) :
         Commit(onClientOutputPipeError(
             [W(io) EXCEPT !.cl[id].clientOutputPipe.committing = FALSE], id))

\* the client socket is writable (or in error) while its watcher is active
ClientOutputWritable(id) ==
    /\ Running
    /\ cl[id].clientOutputWatcher
    /\ \E io \in IOs(FALSE, FALSE, FALSE) :
         Commit(onClientOutputWritable(W(io), id))

\* Header blocks with and without each of the four Content-* keys, in two
\* orders, sent by a client that has given the password.
HeaderTokens == <<"PASSENGER_PRINT_STATUS_LINE=false", "HTTP_CONTENT_TYPE=b",
                  "CONTENT_TYPE=a", "HTTP_CONTENT_LENGTH=2", "CONTENT_LENGTH=3">>
Reverse(seq) == [i \in 1..Len(seq) |-> seq[Len(seq) + 1 - i]]
SubSeqOf(seq, keep) == LET Kept(t) == t \in keep IN SelectSeq(seq, Kept)
NormalisationBlocks ==
    UNION {{SubSeqOf(HeaderTokens, keep), SubSeqOf(Reverse(HeaderTokens), keep)} :
              keep \in SUBSET {HeaderTokens[i] : i \in DOMAIN HeaderTokens}}
NormalisationRequests ==
    {requestSocketPassword \o block \o <<e>> :
         block \in NormalisationBlocks, e \in {",", "!", "#"}}

\* one client, accepted, whose password has been read
InitHeaders ==
    LET io == CHOOSE x \in IOs(FALSE, FALSE, FALSE) : TRUE
        w0 == [clients |-> {}, cl |-> [id \in SingleIds |-> NewClient],
               net |-> [id \in SingleIds |-> NewNet],
               hist |-> [id \in SingleIds |-> NewHist],
               crashed |-> "none", io |-> io]
        w1 == onAcceptable(w0, 1, FALSE, 0)
        id == CHOOSE i \in SingleIds : TRUE
    IN  \E w2 \in {onClientInputData(
                        [w1 EXCEPT !.hist[id].sent = requestSocketPassword],
                        id, requestSocketPassword).w} :
            /\ clients = w2.clients
            /\ cl = w2.cl
            /\ net = w2.net
            /\ hist = w2.hist
            /\ crashed = w2.crashed

\* clientInput reads a chunk of the header block
HeaderInputReadable(id) ==
    /\ Running
    /\ cl[id].state = "READING_HEADER"
    /\ cl[id].clientInput.started /\ cl[id].clientInput.buffer = <<>>
    /\ \E data \in NextChunks(hist[id].sent, NormalisationRequests),
         io \in IOs(TRUE, TRUE, FALSE) :
         \E r \in {onClientInputData([W(io) EXCEPT !.hist[id].sent = @ \o data],
                                     id, data)} :
             Commit([r.w EXCEPT !.cl[id].clientInput.buffer = Drop(data, r.n)])

NextHeaders == \E id \in DOMAIN cl : HeaderInputReadable(id)

SpecHeaders == InitHeaders /\ [][NextHeaders]_vars

\* Responses with each Status line, for requests with and without the
\* PASSENGER_PRINT_STATUS_LINE option, sent by a worker whose session has
\* been checked out.
StatusHeaderBlocks ==
    {<<",">>} \cup {<<PairToken("PASSENGER_PRINT_STATUS_LINE", v), ",">> :
                        v \in {"true", "false", "yes"}}
StatusResponses ==
    UNION {{<<"h", e[1], "E", "r1">>, <<e[1], "h", "E">>} : e \in StatusTable}

\* one client whose request has been read and passed to a worker
InitStatus ==
    \E block \in StatusHeaderBlocks :
        LET io == [script |-> <<"ok">>, app |-> [fail |-> "none", cap |-> -1],
                   cli |-> Unused, ub |-> "abort"]
            w0 == [clients |-> {}, cl |-> [id \in SingleIds |-> NewClient],
                   net |-> [id \in SingleIds |-> NewNet],
                   hist |-> [id \in SingleIds |-> NewHist],
                   crashed |-> "none", io |-> io]
            w1 == onAcceptable(w0, 1, FALSE, 0)
            id == CHOOSE i \in SingleIds : TRUE
            data == requestSocketPassword \o block
        IN  \E w2 \in {onClientInputData([w1 EXCEPT !.hist[id].sent = data],
                                         id, data).w} :
                /\ clients = w2.clients
                /\ cl = w2.cl
                /\ net = w2.net
                /\ hist = w2.hist
                /\ crashed = w2.crashed

\* appInput reads a chunk of one of the responses
StatusInputReadable(id) ==
    /\ Running
    /\ cl[id].appInput.started /\ ~hist[id].appEof
    /\ net[id].appSock # "none"
    /\ \E data \in NextChunks(hist[id].appSent, StatusResponses),
         io \in IOs(FALSE, FALSE, FALSE) :
         Commit(onAppInputData([W(io) EXCEPT !.hist[id].appSent = @ \o data],
                               id, data))

NextStatus ==
    \/ \E id \in DOMAIN cl : StatusInputReadable(id)
    \/ \E id \in DOMAIN cl : AppInputEof(id)
    \/ \E id \in DOMAIN cl : ClientOutputPipeData(id)
    \/ \E id \in DOMAIN cl : ClientOutputPipeEnd(id)
    \/ \E id \in DOMAIN cl : ClientOutputPipeCommit(id)
    \/ \E id \in DOMAIN cl : ClientOutputWritable(id)

SpecStatus == InitStatus /\ [][NextStatus]_vars

Next ==
    \/ Accept
    \/ \E id \in DOMAIN cl : ClientInputReadable(id)
    \/ \E id \in DOMAIN cl : ClientInputTick(id)
    \/ \E id \in DOMAIN cl : ClientInputEof(id)
    \/ \E id \in DOMAIN cl : ClientInputError(id)
    \/ \E id \in DOMAIN cl : Timeout(id)
    \/ \E id \in DOMAIN cl : PoolCallback(id)
    \/ \E id \in DOMAIN cl : PoolThreadCallback(id)
    \/ \E id \in DOMAIN cl : RunAsync(id)
    \/ \E id \in DOMAIN cl : AppOutputWritable(id)
    \/ \E id \in DOMAIN cl : AppInputReadable(id)
    \/ \E id \in DOMAIN cl : AppInputEof(id)
    \/ \E id \in DOMAIN cl : AppInputError(id)
    \/ \E id \in DOMAIN cl : ClientBodyBufferData(id)
    \/ \E id \in DOMAIN cl : ClientBodyBufferEnd(id)
    \/ \E id \in DOMAIN cl : ClientBodyBufferCommit(id)
    \/ \E id \in DOMAIN cl : ClientBodyBufferError(id)
    \/ \E id \in DOMAIN cl : ClientOutputPipeData(id)
    \/ \E id \in DOMAIN cl : ClientOutputPipeEnd(id)
    \/ \E id \in DOMAIN cl : ClientOutputPipeCommit(id)
    \/ \E id \in DOMAIN cl : ClientOutputPipeError(id)
    \/ \E id \in DOMAIN cl : ClientOutputWritable(id)

Spec == Init /\ [][Next]_vars

\* the events of one client when several share the event loop
EventOf(id) ==
    \/ ClientInputReadable(id)
    \/ ClientInputEof(id)
    \/ ClientInputError(id)
    \/ Timeout(id)
    \/ PoolCallback(id)
    \/ PoolThreadCallback(id)
    \/ RunAsync(id)
    \/ AppInputReadable(id)
    \/ AppInputEof(id)
    \/ AppInputError(id)
    \/ ClientOutputPipeData(id)
    \/ ClientOutputPipeEnd(id)
    \/ ClientOutputPipeCommit(id)
    \/ ClientOutputPipeError(id)

NextTwo ==
    \/ Accept
    \/ \E id \in DOMAIN cl : ClientInputReadable(id)
    \/ \E id \in DOMAIN cl : ClientInputEof(id)
    \/ \E id \in DOMAIN cl : ClientInputError(id)
    \/ \E id \in DOMAIN cl : Timeout(id)
    \/ \E id \in DOMAIN cl : PoolCallback(id)
    \/ \E id \in DOMAIN cl : PoolThreadCallback(id)
    \/ \E id \in DOMAIN cl : RunAsync(id)
    \/ \E id \in DOMAIN cl : AppInputReadable(id)
    \/ \E id \in DOMAIN cl : AppInputEof(id)
    \/ \E id \in DOMAIN cl : AppInputError(id)
    \/ \E id \in DOMAIN cl : ClientOutputPipeData(id)
    \/ \E id \in DOMAIN cl : ClientOutputPipeEnd(id)
    \/ \E id \in DOMAIN cl : ClientOutputPipeCommit(id)
    \/ \E id \in DOMAIN cl : ClientOutputPipeError(id)

SpecTwo == InitTwo /\ [][NextTwo]_vars

\* the listener, and the first few clients, which never send anything
Impatient == 3
NextMany ==
    \/ Accept
    \/ \E id \in 1..Impatient : Timeout(id)

SpecMany == InitMany /\ [][NextMany]_vars

-----------------------------------------------------------------------------
(* Properties *)

PasswordPhases == {"BEGIN_READING_CONNECT_PASSWORD", "STILL_READING_CONNECT_PASSWORD"}
PasswordLen == Len(requestSocketPassword)
Created == {id \in DOMAIN cl : hist[id].created}

\* C1: after every completed handler a client is attached to the handler
\* exactly when its descriptor is valid and exactly when its phase is not
\* DISCONNECTED; a client that was never accepted is detached as well.
C1_AttachedIffFdIffPhase ==
    \A id \in DOMAIN cl :
        /\ cl[id].requestHandler = (cl[id].fd # -1)
        /\ cl[id].requestHandler = (cl[id].state # "DISCONNECTED")
        /\ cl[id].requestHandler => hist[id].created

\* a client that was attached and has been disconnected again
C1_Witness ==
    \E id \in Created :
        /\ ~cl[id].requestHandler /\ cl[id].fd = -1
        /\ cl[id].state = "DISCONNECTED" /\ hist[id].lastError # "none"

\* C2: a client is past the password phases only if the first N bytes it sent
\* equal the connect password; once N bytes that differ from the password have
\* arrived the client is disconnected, and no byte was ever written to its
\* output pipe or to its socket.
C2_PasswordGate ==
    \A id \in Created :
        LET sent == hist[id].sent IN
        /\ (cl[id].state \notin PasswordPhases \cup {"DISCONNECTED"}
            \/ hist[id].headerFed # <<>>)
               => /\ Len(sent) >= PasswordLen
                  /\ Take(sent, PasswordLen) = requestSocketPassword
        /\ (Len(sent) >= PasswordLen /\ Take(sent, PasswordLen) # requestSocketPassword)
               => /\ cl[id].state = "DISCONNECTED"
                  /\ hist[id].pipeWritten = <<>>
                  /\ hist[id].cliRecv = <<>>
                  /\ hist[id].appRecv = <<>>

\* a client that sent N wrong bytes, the last of which is the wrong one, and
\* was disconnected for it
C2_Witness ==
    \E id \in Created :
        /\ Len(hist[id].sent) >= PasswordLen
        /\ Take(hist[id].sent, PasswordLen) = <<"s", "e", "x">>
        /\ cl[id].state = "DISCONNECTED"
        /\ hist[id].lastError = "wrong connect password"

\* C3: the outcome of the password phase depends on the bytes only, not on how
\* they were chunked: while fewer than N bytes have arrived they are buffered
\* and nothing is compared; the comparison is made exactly once, on exactly
\* the first N bytes; a match consumes exactly N bytes, so what follows them
\* is what the header parser is fed.
C3_ChunkingIndependent ==
    \A id \in Created :
        LET sent == hist[id].sent IN
        /\ Len(sent) < PasswordLen
               => /\ hist[id].passwordChecks = <<>>
                  /\ cl[id].state \in PasswordPhases \cup {"DISCONNECTED"}
                  /\ cl[id].state = "BEGIN_READING_CONNECT_PASSWORD" => sent = <<>>
                  /\ cl[id].state = "STILL_READING_CONNECT_PASSWORD"
                         => /\ cl[id].bufferedConnectPassword.data = sent
                            /\ cl[id].bufferedConnectPassword.alreadyRead = Len(sent)
        /\ Len(sent) >= PasswordLen
               => /\ hist[id].passwordChecks = <<Take(sent, PasswordLen)>>
                  /\ cl[id].state \notin PasswordPhases
                  /\ IsPrefix(hist[id].headerFed, Drop(sent, PasswordLen))
        /\ cl[id].state = "READING_HEADER"
               => /\ hist[id].headerFed = Drop(sent, PasswordLen)
                  /\ cl[id].clientInput.buffer = <<>>

\* a client that sent all but the last byte of the password: the bytes are
\* buffered and nothing was compared
C3_WitnessSplit ==
    \E id \in Created :
        /\ cl[id].state = "STILL_READING_CONNECT_PASSWORD"
        /\ cl[id].bufferedConnectPassword.alreadyRead = PasswordLen - 1
        /\ hist[id].passwordChecks = <<>>

\* C4: the timer runs from the attachment until the password matches, and in
\* no other phase; a client disconnected for "no connect password received
\* within timeout" never had its password compared, and a client whose
\* password matched is never disconnected by a timeout.
C4_PasswordTimer ==
    \A id \in Created :
        /\ cl[id].timeoutTimer = (cl[id].state \in PasswordPhases)
        /\ hist[id].lastError = "no connect password received within timeout"
               => /\ cl[id].state = "DISCONNECTED"
                  /\ hist[id].passwordChecks = <<>>
        /\ hist[id].lastError # "timeout"
        /\ hist[id].passwordChecks = <<requestSocketPassword>>
               => hist[id].lastError # "no connect password received within timeout"

\* a client that was disconnected by the timer after it had sent a part of
\* the password
C4_Witness ==
    \E id \in Created :
        /\ hist[id].lastError = "no connect password received within timeout"
        /\ hist[id].sent # <<>>
        /\ cl[id].state = "DISCONNECTED"

\* a client whose password matched and whose timer is off
C4_WitnessMatched ==
    \E id \in Created :
        /\ hist[id].passwordChecks = <<requestSocketPassword>>
        /\ cl[id].state = "READING_HEADER" /\ ~cl[id].timeoutTimer

IsBodyByte(t) == \E i \in 1..Len(BodyBytes) : BodyBytes[i] = t
\* the body bytes the client has sent, and those the worker has been written
BodySent(id) == SelectSeq(hist[id].sent, IsBodyByte)
BodyRecv(id) == SelectSeq(hist[id].appRecv, IsBodyByte)
Contains(s, t) == \E i \in 1..Len(s) : s[i] = t

\* C5: the body bytes written to the worker are a prefix of the body bytes
\* the client sent, in order, none twice and none skipped, and they follow
\* the complete header frame; a byte is acknowledged to its source only if
\* the write took it: in FORWARDING_BODY_TO_APP what the worker has plus what
\* the source still holds (clientInput unbuffered, the spill pipe buffered)
\* is the body.
C5_BodyIsForwardedInOrder ==
    \A id \in Created :
        LET recv == hist[id].appRecv IN
        /\ IsPrefix(BodyRecv(id), BodySent(id))
        /\ Drop(recv, Len(recv) - Len(BodyRecv(id))) = BodyRecv(id)
        /\ BodyRecv(id) # <<>>
               => recv[Len(recv) - Len(BodyRecv(id))] = "session connect password"
        /\ (cl[id].state = "FORWARDING_BODY_TO_APP" /\ ~cl[id].requestBodyIsBuffered)
               => BodyRecv(id) \o cl[id].clientInput.buffer = BodySent(id)
        /\ (cl[id].state = "FORWARDING_BODY_TO_APP" /\ cl[id].requestBodyIsBuffered)
               => BodyRecv(id) \o cl[id].clientBodyBuffer.buf = BodySent(id)

\* an unbuffered client of which the worker took the first body byte only,
\* the second one still being held by clientInput
C5_Witness ==
    \E id \in Created :
        /\ cl[id].state = "FORWARDING_BODY_TO_APP" /\ ~cl[id].requestBodyIsBuffered
        /\ BodyRecv(id) = <<"b1">>
        /\ cl[id].clientInput.buffer = <<"b2">>

\* whether the request asked for the HTTP status line (the default)
PrintStatusLine(id) ==
    ~Contains(hist[id].headerFed, "PASSENGER_PRINT_STATUS_LINE=false")
EndOfHeaders(resp) == CHOOSE i \in 1..Len(resp) : resp[i] = "E"
\* what a client must get for the response `resp` of a worker
ExpectedStatusLine(t) == IF t = "Status: 200" THEN "Status: 200 OK" ELSE t
ExpectedOutput(resp, print) ==
    LET e == EndOfHeaders(resp) IN
    (IF print THEN <<"HTTP/1.1 200 OK">> ELSE <<>>)
    \o <<"X-Powered-By: Phusion Passenger">>
    \o [i \in 1..e |-> ExpectedStatusLine(resp[i])]
    \o Drop(resp, e)
HasStatus(resp) ==
    \E i \in 1..EndOfHeaders(resp) : resp[i] \in {"Status: 200", "Status: 200 OK"}

\* C6: once the worker's header block is complete, what has been written
\* into the client output pipe is the synthesized prefix, then the header
\* block with a Status line that has a reason phrase, then every byte the
\* worker sent after the end of the headers, however the response was chunked.
C6_OutputIsPrefixHeaderRest ==
    \A id \in Created :
        (Contains(hist[id].appSent, "E") /\ HasStatus(hist[id].appSent))
            => hist[id].pipeWritten
                   = ExpectedOutput(hist[id].appSent, PrintStatusLine(id))

\* a response whose Status line had no reason phrase and whose body followed
\* the header block
C6_Witness ==
    \E id \in Created :
        /\ hist[id].appSent = <<"Status: 200", "E", "r1">>
        /\ hist[id].pipeWritten = <<"HTTP/1.1 200 OK", "X-Powered-By: Phusion Passenger",
                                    "Status: 200 OK", "E", "r1">>

\* C7: as long as the worker has not sent a complete header block, none of
\* what it sent is in the client output pipe: it is all in the header
\* bufferer; responseHeaderSeen is set only by a complete block.
C7_NothingBeforeHeaderComplete ==
    \A id \in Created :
        /\ (hist[id].appSent # <<>> /\ ~Contains(hist[id].appSent, "E"))
               => hist[id].pipeWritten = <<>>
        /\ (cl[id].requestHandler /\ ~cl[id].responseHeaderSeen)
               => /\ cl[id].responseHeaderBufferer.data = hist[id].appSent
                  /\ hist[id].pipeWritten = <<>>
                     \/ cl[id].state = "WRITING_SIMPLE_RESPONSE"
        /\ cl[id].responseHeaderSeen => Contains(hist[id].appSent, "E")

\* a worker that has sent its Status line but not yet the end of the headers
C7_Witness ==
    \E id \in Created :
        /\ cl[id].requestHandler /\ ~cl[id].responseHeaderSeen
        /\ hist[id].appSent = <<"Status: 200">>
        /\ hist[id].pipeWritten = <<>>

\* nothing on the request side of the client is left to happen
RequestSideIdle(id) ==
    \/ crashed # "none"
    \/ /\ ~cl[id].clientInput.started
       /\ ~cl[id].appOutputWatcher
       /\ net[id].pendingGets = 0
       /\ ~(cl[id].clientBodyBuffer.started
            /\ (cl[id].clientBodyBuffer.buf # <<>>
                \/ (cl[id].clientBodyBuffer.ended
                    /\ ~cl[id].clientBodyBuffer.endReached)))

\* when nothing is left to happen for a client whose worker socket is healthy,
\* the worker has the whole body and the half-close
Delivered(id) ==
    (cl[id].state = "FORWARDING_BODY_TO_APP" /\ net[id].appSock = "ok"
     /\ RequestSideIdle(id))
        => BodyRecv(id) = BodySent(id) /\ net[id].appShutWr

\* C8: a buffered request body reaches the worker like an unbuffered one:
\* whatever the worker socket does (EAGAIN, partial writes), once nothing is
\* left to happen the worker has the whole body and the half-close.
C8_BufferedLikeUnbuffered ==
    \A id \in Created : cl[id].requestBodyIsBuffered => Delivered(id)

\* the same for unbuffered bodies
C8_UnbufferedDelivers ==
    \A id \in Created : ~cl[id].requestBodyIsBuffered => Delivered(id)

\* C9: a request without a body, once the client's end-of-file has been read
\* and the body is being forwarded: the complete header frame and no body
\* byte were written to the worker; unbuffered, the worker's write side is
\* half-closed; buffered, it is half-closed as soon as the spill pipe has
\* reported its end, which it is about to do.
C9_EmptyBodyHalfCloses ==
    \A id \in Created :
        (cl[id].state = "FORWARDING_BODY_TO_APP" /\ hist[id].eofRead
         /\ BodySent(id) = <<>>)
            => /\ BodyRecv(id) = <<>>
               /\ hist[id].appRecv # <<>>
               /\ hist[id].appRecv[Len(hist[id].appRecv)] = "session connect password"
               /\ ~cl[id].requestBodyIsBuffered => net[id].appShutWr
               /\ cl[id].requestBodyIsBuffered
                      => IF cl[id].clientBodyBuffer.endReached
                         THEN net[id].appShutWr
                         ELSE /\ cl[id].clientBodyBuffer.started
                              /\ cl[id].clientBodyBuffer.ended
                              /\ cl[id].clientBodyBuffer.buf = <<>>

\* a buffered request without a body whose worker has been half-closed
C9_Witness ==
    \E id \in Created :
        /\ cl[id].state = "FORWARDING_BODY_TO_APP" /\ cl[id].requestBodyIsBuffered
        /\ hist[id].eofRead /\ BodySent(id) = <<>>
        /\ net[id].appShutWr

\* the same, unbuffered
C9_WitnessUnbuffered ==
    \E id \in Created :
        /\ cl[id].state = "FORWARDING_BODY_TO_APP" /\ ~cl[id].requestBodyIsBuffered
        /\ hist[id].eofRead /\ BodySent(id) = <<>>
        /\ net[id].appShutWr

\* C10: a client that is sending the header or forwarding the body holds a
\* session, one that a checkout handed out and whose initiate() succeeded.
C10_SessionWhileSending ==
    \A id \in Created :
        cl[id].state \in {"SENDING_HEADER_TO_APP", "FORWARDING_BODY_TO_APP"}
            => /\ ~cl[id].session.null
               /\ cl[id].session.initiated
               /\ cl[id].sessionCheckedOut
               /\ hist[id].asyncGets >= 1

\* a client that is sending the header to a session it got at the second try
C10_Witness ==
    \E id \in Created :
        /\ cl[id].state = "SENDING_HEADER_TO_APP"
        /\ cl[id].session.initiated
        /\ cl[id].sessionCheckoutTry = 2

\* C11: for a connected client and each of its two spill pipes: while the
\* pipe is committing to disk its upstream reader is paused (clientInput for
\* the body buffer, appInput for the client output pipe) and the counter of
\* background operations is at least 1, whoever wrote to the pipe.
C11_CommittingIsPausedAndCounted ==
    \A id \in Created :
        cl[id].requestHandler
            => /\ cl[id].clientBodyBuffer.committing
                      => /\ ~cl[id].clientInput.started
                         /\ cl[id].backgroundOperations >= 1
               /\ cl[id].clientOutputPipe.committing
                      => /\ ~cl[id].appInput.started
                         /\ cl[id].backgroundOperations >= 1

\* the same for the body buffer alone
C11_BodyBufferAlone ==
    \A id \in Created :
        (cl[id].requestHandler /\ cl[id].clientBodyBuffer.committing)
            => /\ ~cl[id].clientInput.started
               /\ cl[id].backgroundOperations >= 1

\* the error page is being committed to disk and no background operation is
\* counted
C11_ErrorPageUncounted ==
    \E id \in Created :
        /\ cl[id].state = "WRITING_SIMPLE_RESPONSE"
        /\ cl[id].clientOutputPipe.committing
        /\ cl[id].backgroundOperations = 0

\* what of client o a step leaves alone: its object, its sockets, its record
\* and its entry in the table
Untouched(o) ==
    /\ cl'[o] = cl[o]
    /\ net'[o] = net[o]
    /\ hist'[o] = hist[o]
    /\ {e \in clients' : e[2] = o} = {e \in clients : e[2] = o}

\* C12: handling an event or error of one client (wrong password, header
\* error, socket error, pipe error, timeout, pool error, disconnect) changes
\* only that client and removes only its own table entry; every other client
\* and every other table entry is left as it was.
C12_OnlyOwnClientChanges ==
    [][\A id \in DOMAIN cl :
          EventOf(id) => \A o \in DOMAIN cl \ {id} : Untouched(o)]_vars

\* one client was disconnected with an error while another one is still
\* attached and in the table
C12_Witness ==
    \E a \in Created, b \in Created :
        /\ a # b
        /\ cl[a].state = "DISCONNECTED" /\ hist[a].lastError # "none"
        /\ cl[b].requestHandler /\ <<cl[b].fd, b>> \in clients
        /\ hist[b].sent # <<>>

\* the error page writeErrorResponse renders for a client
ErrorPage(id) == ErrorResponseHeader(cl[id]) \o ErrorResponseBody(cl[id])

RenderedErrorPage(id) ==
    /\ cl[id].state \in {"WRITING_SIMPLE_RESPONSE", "DISCONNECTED"}
    /\ hist[id].pipeWritten = ErrorPage(id)
    /\ cl[id].state = "WRITING_SIMPLE_RESPONSE"
           => /\ cl[id].clientOutputPipe.ended
              /\ ~cl[id].clientOutputPipe.endReached

\* C13: when the pool callback has reported an error, of whatever class, to a
\* connected client in CHECKING_OUT_SESSION, the process is running, the
\* client is in WRITING_SIMPLE_RESPONSE with the 500 response (status line,
\* Status, Content-Length, Content-Type, body) written to its output pipe and
\* the pipe ended, and it is DISCONNECTED once the pipe has reported its end.
C13_PoolErrorRendersErrorPage ==
    \A id \in Created :
        hist[id].poolError => crashed = "none" /\ RenderedErrorPage(id)

\* the same for the errors that are SpawnExceptions
C13_SpawnExceptionRendersErrorPage ==
    \A id \in Created :
        (hist[id].poolError /\ crashed = "none") => RenderedErrorPage(id)

\* the error page has drained and the client is disconnected
C13_PageDrained ==
    \E id \in Created :
        /\ hist[id].poolError /\ cl[id].state = "DISCONNECTED"
        /\ cl[id].clientOutputPipe.endReached
        /\ hist[id].cliRecv = ErrorPage(id)

\* C14: when the worker's complete header block has no Status header, the
\* error-response writer has run: the 500 error page is what was written to
\* the client output pipe, and the client is not closed without a response.
C14_MissingStatusGivesErrorPage ==
    \A id \in Created :
        (Contains(hist[id].appSent, "E") /\ ~HasStatus(hist[id].appSent))
            => /\ hist[id].pipeWritten = ErrorPage(id)
               /\ hist[id].lastError = "none"

\* the client of a worker that sent no Status header is closed with nothing
\* written for it
C14_ClosedWithoutResponse ==
    \E id \in Created :
        /\ hist[id].appSent = <<"h", "E">>
        /\ cl[id].state = "DISCONNECTED"
        /\ hist[id].pipeWritten = <<>> /\ hist[id].cliRecv = <<>>
        /\ hist[id].lastError
               = "application sent malformed response: it didn't send a Status header."

CouldNotInitiate == "could not initiate a session"

C15_WitnessRetrying ==
    \E id \in Created :
        /\ cl[id].state = "CHECKING_OUT_SESSION"
        /\ hist[id].initFails = 4 /\ hist[id].asyncGets = 5
        /\ net[id].pendingGets = 1

LeavesWritingSimpleResponse(id) ==
    /\ cl[id].state = "WRITING_SIMPLE_RESPONSE"
    /\ cl'[id].state # "WRITING_SIMPLE_RESPONSE"

\* C16 as stated: a client in WRITING_SIMPLE_RESPONSE leaves that phase only
\* by its output pipe reporting its end, and then it is DISCONNECTED.
C16_OnlyDrainLeaves ==
    [][\A id \in DOMAIN cl :
          LeavesWritingSimpleResponse(id)
              => ClientOutputPipeEnd(id) /\ cl'[id].state = "DISCONNECTED"]_vars

\* C16: a client in WRITING_SIMPLE_RESPONSE never goes to an earlier phase:
\* the only phase it leaves for is DISCONNECTED, and it does so when its
\* output pipe reports its end, when a write to the client socket fails, or
\* when the output pipe reports an error.
C16_LeavesOnlyToDisconnected ==
    [][\A id \in DOMAIN cl :
          LeavesWritingSimpleResponse(id)
              => /\ cl'[id].state = "DISCONNECTED"
                 /\ \/ ClientOutputPipeEnd(id)
                    \/ ClientOutputPipeData(id)
                    \/ ClientOutputPipeError(id)]_vars

\* a client that left WRITING_SIMPLE_RESPONSE before its error page was
\* delivered in full
C16_Witness ==
    \E id \in Created :
        /\ hist[id].poolError /\ crashed = "none"
        /\ cl[id].state = "DISCONNECTED"
        /\ ~cl[id].clientOutputPipe.endReached
        /\ hist[id].cliRecv # ErrorPage(id)

Disconnected == {id \in Created : ~cl[id].requestHandler}

\* every watcher and reader of the client is stopped
AllStopped(id) ==
    /\ ~cl[id].clientInput.started
    /\ ~cl[id].clientBodyBuffer.started
    /\ ~cl[id].clientOutputPipe.started
    /\ ~cl[id].clientOutputWatcher
    /\ ~cl[id].appInput.started
    /\ ~cl[id].appOutputWatcher
    /\ ~cl[id].timeoutTimer

\* C17: a client that was disconnected, from whatever phase, has every
\* watcher and reader stopped (client input, body spill pipe, client output
\* pipe, client-writable watcher, worker input, worker-writable watcher,
\* timer) and holds no session.
C17_DisconnectStopsAndReleases ==
    \A id \in Disconnected : AllStopped(id) /\ cl[id].session.null

\* the part about the watchers and readers alone
C17_DisconnectStopsEverything == \A id \in Disconnected : AllStopped(id)

\* a disconnected client whose session pointer is still set
C17_SessionStillHeld ==
    \E id \in Disconnected :
        /\ ~cl[id].session.null /\ cl[id].session.initiated
        /\ AllStopped(id) /\ cl[id].state = "DISCONNECTED"

\* a completion callback of the client is still to come: a pool checkout or
\* a commit of one of the two spill pipes
InFlight(id) ==
    \/ net[id].pendingGets > 0
    \/ cl[id].clientBodyBuffer.committing
    \/ cl[id].clientOutputPipe.committing

\* C18: a client that is disconnected while its counter of background
\* operations is greater than 0 and a completion callback is still in flight
\* is not reassociateable() then, whatever its endpoints answer, and no
\* disconnected client is while a callback of it is in flight.
C18_NotReusableWhileInFlight ==
    [][\A id \in DOMAIN cl, r \in BOOLEAN :
          /\ (/\ cl[id].requestHandler /\ cl[id].backgroundOperations > 0
              /\ ~cl'[id].requestHandler /\ InFlight(id)')
                 => ~reassociateable(cl'[id], r)
          /\ (~cl'[id].requestHandler /\ hist'[id].created /\ InFlight(id)')
                 => ~reassociateable(cl'[id], r)]_vars

\* a disconnected client that is reassociateable() has counter 0
C18_ReusableOnlyDetachedAtZero ==
    \A id \in Created, r \in BOOLEAN :
        reassociateable(cl[id], r)
            => ~cl[id].requestHandler /\ cl[id].backgroundOperations = 0

\* a client disconnected while a spill pipe commit is in flight has its
\* counter back at 0
C18_CounterZeroedInFlight ==
    \E id \in Disconnected :
        /\ cl[id].clientOutputPipe.committing
        /\ cl[id].backgroundOperations = 0
        /\ reassociateable(cl[id], TRUE)

\* the clients a step creates
Accepted == {id \in DOMAIN cl : hist'[id].created /\ ~hist[id].created}

CannotAccept == "SystemException: Cannot accept client"

\* C19: a listener event on which `pending` connections wait accepts the
\* first 10 of them at most and stops at the first EAGAIN; an accept that
\* fails otherwise ends the process with the exception; every accepted fd has
\* a new Client that is attached to it, in BEGIN_READING_CONNECT_PASSWORD
\* with its timer running and its input started, and is in the table under
\* that fd alone; the clients there were are left alone.
C19_AcceptsAtMostTen ==
    [][\A pending \in 1..Cardinality(DOMAIN cl \ Created), fatal \in BOOLEAN :
          Commit(onAcceptable(W(CHOOSE io \in IOs(FALSE, FALSE, FALSE) : TRUE),
                              pending, fatal, 0))
              => /\ Cardinality(Accepted) = Min(pending, 10)
                 /\ crashed' = IF fatal /\ pending < 10 THEN CannotAccept ELSE crashed
                 /\ \A id \in Accepted :
                        /\ cl'[id].requestHandler
                        /\ cl'[id].state = "BEGIN_READING_CONNECT_PASSWORD"
                        /\ cl'[id].timeoutTimer /\ cl'[id].clientInput.started
                        /\ cl'[id].fd >= 1
                        /\ \A j \in DOMAIN cl : j # id => cl'[j].fd # cl'[id].fd
                        /\ {e \in clients' : e[1] = cl'[id].fd} = {<<cl'[id].fd, id>>}
                 /\ \A id \in DOMAIN cl \ Accepted :
                        /\ cl'[id] = cl[id]
                        /\ {e \in clients' : e[2] = id} = {e \in clients : e[2] = id}]_vars

\* ten clients are attached and in the table, as after one event on which
\* eleven connections waited, and the eleventh is left for the next event
C19_Witness ==
    /\ Cardinality(Created) = 10
    /\ Cardinality(clients) = 10
    /\ \A id \in Created : cl[id].requestHandler /\ cl[id].timeoutTimer
    /\ crashed = "none"

\* the header map as the client sent it, and the header data as it sent it
SentMap(id) == ScgiFeed(NewParser, hist[id].headerFed, 0).parser.map
SentHeaderData(id) == ScgiFeed(NewParser, hist[id].headerFed, 0).parser.headerData
HeaderComplete(id) == Contains(hist[id].headerFed, ",")

\* what normalisation makes of the pair (httpKey, key) of a map
Normalised(sent, now, httpKey, key) ==
    /\ httpKey \notin DOMAIN now
    /\ key \in DOMAIN now <=> (key \in DOMAIN sent \/ httpKey \in DOMAIN sent)
    /\ key \in DOMAIN sent => now[key] = sent[key]
    /\ (key \notin DOMAIN sent /\ httpKey \in DOMAIN sent) => now[key] = sent[httpKey]

ContentKeys == {"HTTP_CONTENT_LENGTH", "CONTENT_LENGTH",
                "HTTP_CONTENT_TYPE", "CONTENT_TYPE"}

\* C20: once the header block is complete, for each of the pairs
\* (HTTP_CONTENT_LENGTH, CONTENT_LENGTH) and (HTTP_CONTENT_TYPE, CONTENT_TYPE)
\* the HTTP_ key is gone, its value has moved to the plain key if that was
\* absent, and a plain key that was there has kept its value; every other key
\* and value is as sent; and the header data is the serialisation of the new
\* map if one of the two HTTP_ keys was sent, and as sent otherwise.
C20_HeaderNormalisation ==
    \A id \in Created :
        HeaderComplete(id) =>
            LET sent == SentMap(id)
                now == cl[id].scgiParser.map
            IN  /\ Normalised(sent, now, "HTTP_CONTENT_LENGTH", "CONTENT_LENGTH")
                /\ Normalised(sent, now, "HTTP_CONTENT_TYPE", "CONTENT_TYPE")
                /\ \A k \in HeaderKeys \ ContentKeys :
                       /\ k \in DOMAIN now <=> k \in DOMAIN sent
                       /\ k \in DOMAIN sent => now[k] = sent[k]
                /\ cl[id].scgiParser.headerData
                       = IF "HTTP_CONTENT_LENGTH" \in DOMAIN sent
                            \/ "HTTP_CONTENT_TYPE" \in DOMAIN sent
                         THEN SerialiseMap(now, KeyOrder)
                         ELSE SentHeaderData(id)

\* both keys of both pairs were sent, with different values, beside another
\* key: the plain keys have kept their values
C20_Witness ==
    \E id \in Created :
        /\ HeaderComplete(id)
        /\ DOMAIN SentMap(id) = ContentKeys \cup {"PASSENGER_PRINT_STATUS_LINE"}
        /\ cl[id].scgiParser.map["CONTENT_LENGTH"] = "3"
        /\ cl[id].scgiParser.map["CONTENT_TYPE"] = "a"
        /\ cl[id].scgiParser.headerData
               = <<"CONTENT_LENGTH=3", "CONTENT_TYPE=a",
                   "PASSENGER_PRINT_STATUS_LINE=false">>

\* header data that is left as sent, in the order it was sent in
C20_WitnessUnmodified ==
    \E id \in Created :
        /\ HeaderComplete(id)
        /\ cl[id].scgiParser.headerData
               = <<"PASSENGER_PRINT_STATUS_LINE=false", "CONTENT_TYPE=a">>

\* the header parser has ended in its error state: on a malformed byte, on a
\* length over its limit
HeaderMalformed(id) == Contains(hist[id].headerFed, "!")
HeaderTooLarge(id) == Contains(hist[id].headerFed, "#")

\* C21: when the header parser ends in its error state the client is
\* disconnected, with "SCGI header too large" if the limit was reached and
\* "invalid SCGI header" otherwise; no asyncGet was called, the header map and
\* data are as the client sent them, and nothing was written for the client.
C21_HeaderErrorDisconnects ==
    \A id \in Created :
        (HeaderMalformed(id) \/ HeaderTooLarge(id))
            => /\ cl[id].state = "DISCONNECTED" /\ ~cl[id].requestHandler
               /\ hist[id].lastError = IF HeaderTooLarge(id)
                                       THEN "SCGI header too large"
                                       ELSE "invalid SCGI header"
               /\ hist[id].asyncGets = 0 /\ net[id].pendingGets = 0
               /\ cl[id].scgiParser.map = SentMap(id)
               /\ cl[id].scgiParser.headerData = SentHeaderData(id)
               /\ hist[id].pipeWritten = <<>> /\ hist[id].cliRecv = <<>>
               /\ <<>> = hist[id].appRecv

\* a block over the limit that held an HTTP_ key: the key is still in the map
C21_Witness ==
    \E id \in Created :
        /\ HeaderTooLarge(id)
        /\ "HTTP_CONTENT_LENGTH" \in DOMAIN cl[id].scgiParser.map
        /\ hist[id].lastError = "SCGI header too large"

\* a malformed block
C21_WitnessMalformed ==
    \E id \in Created :
        HeaderMalformed(id) /\ hist[id].lastError = "invalid SCGI header"

\* what the request set PASSENGER_PRINT_STATUS_LINE to, "absent" if it did not
PrintStatusLineOption(id) ==
    IF Contains(hist[id].headerFed, "PASSENGER_PRINT_STATUS_LINE=true") THEN "true"
    ELSE IF Contains(hist[id].headerFed, "PASSENGER_PRINT_STATUS_LINE=false") THEN "false"
    ELSE IF Contains(hist[id].headerFed, "PASSENGER_PRINT_STATUS_LINE=yes") THEN "yes"
    ELSE "absent"
\* the Status line a client must get for the Status line of the worker
RewrittenStatusLine(t) ==
    IF t = "Status: 200" THEN "Status: 200 OK"
    ELSE IF t = "Status: 999" THEN "Status: 999 Unknown Reason-Phrase"
    ELSE t
\* and the HTTP status line for it
HttpStatusLine(t) ==
    IF t \in {"Status: 200", "Status: 200 OK"} THEN "HTTP/1.1 200 OK"
    ELSE IF t \in {"Status: 999", "Status: 999 Unknown Reason-Phrase"}
    THEN "HTTP/1.1 999 Unknown Reason-Phrase"
    ELSE "HTTP/1.1 404 Gone Away"
StatusLineOf(resp) ==
    resp[CHOOSE i \in 1..EndOfHeaders(resp) : IsStatusLine(resp[i])]
HeaderBlockOf(resp) == Take(resp, EndOfHeaders(resp))

\* C22: once the worker's header block with a Status line is complete, the
\* client output pipe has got the header block in which a Status value
\* without a space has been given the reason phrase of the status-code
\* table ("Unknown Reason-Phrase" for a code the table does not hold) and
\* every other line is as the worker sent it; before it, the line
\* "HTTP/1.1 <status value>" with the rewritten value, if and only if
\* PASSENGER_PRINT_STATUS_LINE is absent or equals "true", and then the
\* server-identity header in every case.
C22_StatusRewrittenAndPrefixed ==
    \A id \in Created :
        LET resp == hist[id].appSent
            out == hist[id].pipeWritten
            print == PrintStatusLineOption(id) \in {"absent", "true"}
            n == IF print THEN 2 ELSE 1
        IN  (Contains(resp, "E") /\ \E i \in 1..EndOfHeaders(resp) : IsStatusLine(resp[i]))
            => /\ Len(out) >= n + EndOfHeaders(resp)
               /\ print <=> out[1] = HttpStatusLine(StatusLineOf(resp))
               /\ out[n] = "X-Powered-By: Phusion Passenger"
               /\ \A i \in 1..EndOfHeaders(resp) :
                      out[n + i] = IF IsStatusLine(resp[i])
                                   THEN RewrittenStatusLine(resp[i])
                                   ELSE resp[i]

\* a status code that the table does not hold, sent to a request that set the
\* option to "true"
C22_Witness ==
    \E id \in Created :
        /\ PrintStatusLineOption(id) = "true"
        /\ hist[id].appSent = <<"h", "Status: 999", "E", "r1">>
        /\ hist[id].pipeWritten = <<"HTTP/1.1 999 Unknown Reason-Phrase",
                                    "X-Powered-By: Phusion Passenger", "h",
                                    "Status: 999 Unknown Reason-Phrase", "E", "r1">>

\* a request that set the option to something else than "true": no status line
C22_WitnessNotPrinted ==
    \E id \in Created :
        /\ PrintStatusLineOption(id) = "yes"
        /\ hist[id].appSent = <<"Status: 200", "h", "E">>
        /\ hist[id].pipeWritten = <<"X-Powered-By: Phusion Passenger",
                                    "Status: 200 OK", "h", "E">>

\* C23: a pool callback called on a thread of the pool leaves every field of
\* every Client, the client table and the sockets as they are: all it does is
\* append the real handler to the queue of the event loop.  Client state
\* changes only in the steps of the event loop, each of which is one whole
\* handler.
C23_PoolThreadOnlyEnqueues ==
    [][\A id \in DOMAIN cl :
           PoolThreadCallback(id)
               => /\ cl' = cl /\ clients' = clients /\ crashed' = crashed
                  /\ hist' = hist
                  /\ Len(net'[id].runAsync) = Len(net[id].runAsync) + 1
                  /\ \E q \in {net'[id].runAsync}, n \in {net'[id].pendingGets} :
                         net' = [net EXCEPT ![id].runAsync = q,
                                            ![id].pendingGets = n]]_vars

\* a callback that a pool thread has queued and the event loop has not yet
\* run: the client is as checkoutSession left it
C23_Witness ==
    \E id \in Created :
        /\ net[id].runAsync # <<>> /\ net[id].pendingGets = 0
        /\ cl[id].state = "CHECKING_OUT_SESSION"
        /\ ~cl[id].sessionCheckedOut /\ cl[id].session.null
        /\ cl[id].backgroundOperations = 1

\* the pool callbacks of a client that have not been handled yet
Outstanding(n) == n.pendingGets + Len(n.runAsync)

\* C24: a handler that calls asyncGet and leaves the client connected changes
\* the background-operation counter by exactly the change in the number of
\* pool callbacks not yet handled: one more for a callback that did not fire
\* inside asyncGet, one less for a pending callback it handled, and nothing
\* for a callback that fired inside asyncGet; the counter does not wrap.
C24_CheckoutKeepsCounterBalanced ==
    [][\A id \in DOMAIN cl :
           (/\ hist'[id].asyncGets > hist[id].asyncGets
            /\ connected(cl'[id]) /\ crashed' = "none"
            /\ ~cl'[id].clientOutputPipe.committing)
               => /\ cl'[id].backgroundOperations
                         = cl[id].backgroundOperations
                               + Outstanding(net'[id]) - Outstanding(net[id])
                  /\ cl'[id].backgroundOperations < UIntModulus - 1]_vars

\* C25: in FORWARDING_BODY_TO_APP, handling the worker-writable event that a
\* write answered with EAGAIN has armed resumes the source of the body that
\* was paused (the client input, or the body buffer of a buffered request),
\* disarms the worker-writable watcher and fails no assertion.
C25_WorkerWritableResumesSource ==
    [][\A id \in DOMAIN cl :
           (cl[id].state = "FORWARDING_BODY_TO_APP" /\ AppOutputWritable(id))
               => /\ crashed' = "none"
                  /\ ~cl'[id].appOutputWatcher
                  /\ IF cl[id].requestBodyIsBuffered
                     THEN cl'[id].clientBodyBuffer.started
                     ELSE cl'[id].clientInput.started]_vars

\* the source the request body is forwarded from
BodySourceStarted(c) ==
    IF c.requestBodyIsBuffered THEN c.clientBodyBuffer.started
    ELSE c.clientInput.started

\* C26: the handler in which a write of the request body to the worker fails
\* with EPIPE shuts down the read side of the client socket, stops the source
\* of the body, leaves the client connected in FORWARDING_BODY_TO_APP and
\* leaves appInput and the client output pipe as they are; from then on the
\* worker receives no further byte.  The handler in which a write of the
\* response to the client fails with EPIPE disconnects the client.
C26_EpipeByDirection ==
    [][\A id \in DOMAIN cl :
           /\ (/\ cl[id].state = "FORWARDING_BODY_TO_APP"
               /\ net[id].appSock # "epipe" /\ net'[id].appSock = "epipe")
                  => /\ crashed' = "none"
                     /\ connected(cl'[id])
                     /\ cl'[id].state = "FORWARDING_BODY_TO_APP"
                     /\ net'[id].cliShutRd
                     /\ ~BodySourceStarted(cl'[id])
                     /\ cl'[id].appInput = cl[id].appInput
                     /\ cl'[id].clientOutputPipe = cl[id].clientOutputPipe
           /\ net[id].appSock = "epipe"
                  => hist'[id].appRecv = hist[id].appRecv
           /\ (net[id].cliSock # "epipe" /\ net'[id].cliSock = "epipe")
                  => /\ ~connected(cl'[id])
                     /\ cl'[id].state = "DISCONNECTED"
                     /\ id \notin {e[2] : e \in clients'}]_vars

\* the worker went away while an unbuffered body was forwarded, the response
\* it had sent kept flowing, and then the client went away too
C26_Witness ==
    \E id \in Created :
        /\ ~cl[id].requestBodyIsBuffered
        /\ net[id].appSock = "epipe" /\ net[id].cliShutRd
        /\ hist[id].cliRecv # <<>>
        /\ net[id].cliSock = "epipe"
        /\ cl[id].state = "DISCONNECTED"

\* the worker went away while a buffered body was forwarded: the client is
\* still connected and the response is in the client output pipe
C26_WitnessBuffered ==
    \E id \in Created :
        /\ cl[id].requestBodyIsBuffered
        /\ net[id].appSock = "epipe" /\ net[id].cliShutRd
        /\ cl[id].state = "FORWARDING_BODY_TO_APP"
        /\ ~cl[id].clientBodyBuffer.started
        /\ cl[id].appInput.started
        /\ cl[id].clientOutputPipe.buf # <<>>

\* whether the request set PASSENGER_BUFFERING to exactly "true"
BufferingRequested(id) ==
    /\ "PASSENGER_BUFFERING" \in DOMAIN SentMap(id)
    /\ SentMap(id)["PASSENGER_BUFFERING"] = "true"
\* whether the worker has got the whole header frame
HeaderFrameSent(id) == Contains(hist[id].appRecv, "session connect password")

\* C27: asyncGet is called only for a client whose header block was parsed to
\* its end without error.  A request with PASSENGER_BUFFERING exactly "true"
\* is buffered: it is in BUFFERING_REQUEST_BODY as long as asyncGet has not
\* been called, and asyncGet is called only once the client's EOF has ended
\* the body buffer.  Any other request is not buffered: asyncGet is called in
\* the handler that completes the header, the client input is stopped while
\* the session is checked out and the header sent, and the body bytes that
\* came with the header stay in the client input until the worker has the
\* header frame.
C27_CheckoutOrdering ==
    \A id \in Created :
        /\ hist[id].asyncGets > 0 => HeaderComplete(id)
        /\ (HeaderComplete(id) /\ connected(cl[id]))
               => cl[id].requestBodyIsBuffered = BufferingRequested(id)
        /\ (HeaderComplete(id) /\ BufferingRequested(id))
               => /\ (hist[id].asyncGets = 0 /\ connected(cl[id]))
                         => cl[id].state = "BUFFERING_REQUEST_BODY"
                  /\ hist[id].asyncGets > 0
                         => /\ hist[id].eofRead
                            /\ connected(cl[id]) => cl[id].clientBodyBuffer.ended
        /\ (HeaderComplete(id) /\ ~BufferingRequested(id))
               => /\ hist[id].asyncGets >= 1
                  /\ (connected(cl[id]) /\ ~HeaderFrameSent(id))
                         => /\ ~cl[id].clientInput.started
                            /\ BodyRecv(id) = <<>>
                            /\ cl[id].clientInput.buffer = BodySent(id)

\* a request with PASSENGER_BUFFERING=yes whose body byte came with the
\* header: the session is being checked out and the byte is still held
C27_Witness ==
    \E id \in Created :
        /\ Contains(hist[id].headerFed, "PASSENGER_BUFFERING=yes")
        /\ cl[id].state = "CHECKING_OUT_SESSION" /\ ~cl[id].requestBodyIsBuffered
        /\ hist[id].asyncGets = 1
        /\ BodySent(id) = <<"b1">> /\ cl[id].clientInput.buffer = <<"b1">>

\* a buffered request whose checkout began at the client's EOF
C27_WitnessBuffered ==
    \E id \in Created :
        /\ BufferingRequested(id) /\ cl[id].requestBodyIsBuffered
        /\ hist[id].asyncGets = 1 /\ hist[id].eofRead
        /\ BodySent(id) # <<>> /\ cl[id].clientBodyBuffer.ended
        /\ cl[id].state = "CHECKING_OUT_SESSION"

\* the table holds exactly the connected clients, each once, under its own fd
TableIsConnectedClients ==
    /\ \A e \in clients :
           /\ e[2] \in DOMAIN cl /\ connected(cl[e[2]])
           /\ e[1] >= 0 /\ cl[e[2]].fd = e[1]
    /\ \A id \in DOMAIN cl : connected(cl[id]) => <<cl[id].fd, id>> \in clients
    /\ \A e1 \in clients, e2 \in clients :
           (e1[1] = e2[1] \/ e1[2] = e2[2]) => e1 = e2
    /\ \A id \in DOMAIN cl : ~connected(cl[id]) => id \notin {e[2] : e \in clients}
\* an entry is added for a Client that the acceptor has just made, and is
\* removed for a client that has just been disconnected
TableChangesByAcceptAndDisconnect ==
    /\ \A e \in clients' \ clients :
           /\ Accept
           /\ ~hist[e[2]].created /\ hist'[e[2]].created
    /\ \A e \in clients \ clients' :
           /\ connected(cl[e[2]]) /\ ~connected(cl'[e[2]])
           /\ cl'[e[2]].state = "DISCONNECTED" /\ cl'[e[2]].fd = -1

\* C28: at every moment the table of clients holds exactly the connected
\* clients, each under the key of its own valid file descriptor and none
\* twice, so a disconnected client is never in it; an entry is added only
\* by the acceptor and removed only by disconnect.
C28_TableHoldsTheConnectedClients ==
    []TableIsConnectedClients /\ [][TableChangesByAcceptAndDisconnect]_vars

\* two clients of which the first has been disconnected and the second,
\* accepted afterwards under the descriptor of the first, is in the table
C28_Witness ==
    \E id \in Created, o \in Created :
        /\ ~connected(cl[id]) /\ connected(cl[o])
        /\ clients = {<<1, o>>} /\ cl[o].fd = 1
        /\ hist[id].sent # <<>>

\* C29: when the commit event of the client output pipe is handled for a
\* connected client, a write has counted the commit and stopped appInput: the
\* counter is not 0, appInput is stopped, and the client is not writing a
\* simple response without ever having had a worker socket.
C29_CommitWasCounted ==
    [][\A id \in DOMAIN cl :
           (connected(cl[id]) /\ ClientOutputPipeCommit(id))
               => /\ cl[id].backgroundOperations # 0
                  /\ ~cl[id].appInput.started
                  /\ ~(cl[id].state = "WRITING_SIMPLE_RESPONSE"
                       /\ net[id].appSock = "none")]_vars

\* C30: once a write to the client socket has returned EAGAIN and armed the
\* client-writable watcher, the watcher of a client that stays connected
\* remains armed until the client-writable event is handled, whatever other
\* event is handled in between.
C30_ClientWatcherStaysArmed ==
    [][\A id \in DOMAIN cl :
           (/\ cl[id].clientOutputWatcher /\ connected(cl[id])
            /\ connected(cl'[id]) /\ crashed' = "none"
            /\ ~ClientOutputWritable(id))
               => cl'[id].clientOutputWatcher]_vars

\* the phases in the order of the claim
PhaseOrder == <<"BEGIN_READING_CONNECT_PASSWORD", "STILL_READING_CONNECT_PASSWORD",
                "READING_HEADER", "BUFFERING_REQUEST_BODY", "CHECKING_OUT_SESSION",
                "SENDING_HEADER_TO_APP", "FORWARDING_BODY_TO_APP",
                "WRITING_SIMPLE_RESPONSE", "DISCONNECTED">>
PhaseIndex(st) == CHOOSE i \in DOMAIN PhaseOrder : PhaseOrder[i] = st

\* C31: in every step the phase of a client that has been accepted is the
\* same as before or a later one of the order; WRITING_SIMPLE_RESPONSE is
\* entered only from a phase before FORWARDING_BODY_TO_APP, and a client
\* that is DISCONNECTED stays so.
C31_PhaseOnlyMovesForward ==
    [][\A id \in DOMAIN cl :
           hist[id].created
               => /\ PhaseIndex(cl'[id].state) >= PhaseIndex(cl[id].state)
                  /\ (cl'[id].state = "WRITING_SIMPLE_RESPONSE"
                      /\ cl[id].state # "WRITING_SIMPLE_RESPONSE")
                         => PhaseIndex(cl[id].state)
                                < PhaseIndex("FORWARDING_BODY_TO_APP")
                  /\ cl[id].state = "DISCONNECTED"
                         => cl'[id].state = "DISCONNECTED"]_vars

\* a client that went through the buffered path to the forwarding phase and
\* has been disconnected after its response
C31_Witness ==
    \E id \in Created :
        /\ cl[id].state = "DISCONNECTED"
        /\ BufferingRequested(id) /\ hist[id].eofRead
        /\ HeaderFrameSent(id) /\ hist[id].cliRecv # <<>>

\* a client that is writing the error page after a failed checkout
C31_WitnessSimpleResponse ==
    \E id \in Created :
        /\ cl[id].state = "WRITING_SIMPLE_RESPONSE"
        /\ hist[id].poolError /\ hist[id].pipeWritten # <<>>

\* the abort() branches of the dispatchers
DispatcherAborts == {"abort: onClientRealData", "abort: onClientBodyBufferData",
                     "abort: onClientBodyBufferEnd", "abort: onClientBodyBufferCommit",
                     "abort: onAppOutputWritable"}
NoDispatcherAbort == crashed \notin DispatcherAborts
\* the phases in which each kind of event is delivered to a connected client
DeliveredInItsPhases ==
    \A id \in DOMAIN cl :
        connected(cl[id])
            => /\ (ClientInputReadable(id) \/ ClientInputTick(id))
                      => cl[id].state \in {"BEGIN_READING_CONNECT_PASSWORD",
                                           "STILL_READING_CONNECT_PASSWORD",
                                           "READING_HEADER", "BUFFERING_REQUEST_BODY",
                                           "FORWARDING_BODY_TO_APP"}
               /\ (ClientBodyBufferData(id) \/ ClientBodyBufferEnd(id))
                      => cl[id].state = "FORWARDING_BODY_TO_APP"
               /\ ClientBodyBufferCommit(id)
                      => cl[id].state = "BUFFERING_REQUEST_BODY"
               /\ AppOutputWritable(id)
                      => cl[id].state \in {"SENDING_HEADER_TO_APP",
                                           "FORWARDING_BODY_TO_APP"}

\* C32: no handler ends in the abort() branch of a dispatcher, the rest of a
\* chunk after a change of phase included; client data is delivered to a
\* connected client in the two password phases, READING_HEADER,
\* BUFFERING_REQUEST_BODY or FORWARDING_BODY_TO_APP only, data and end of the
\* body buffer in FORWARDING_BODY_TO_APP only, its commit in
\* BUFFERING_REQUEST_BODY only, and a worker-writable event in
\* SENDING_HEADER_TO_APP or FORWARDING_BODY_TO_APP only.
C32_NoDispatcherAbort ==
    []NoDispatcherAbort /\ [][DeliveredInItsPhases]_vars

\* one chunk that held the password, the header and a body byte has taken
\* the client through three phases, and the body byte has been forwarded
C32_Witness ==
    \E id \in Created :
        /\ hist[id].sent = requestSocketPassword \o <<",", "b1">>
        /\ hist[id].passwordChecks = <<requestSocketPassword>>
        /\ cl[id].state = "FORWARDING_BODY_TO_APP"
        /\ BodyRecv(id) = <<"b1">>
        /\ crashed = "none"

\* the assertions of the phases
PhaseAssertions ==
    {"assert: state_checkingOutSession_verifyInvariants",
     "assert: sendHeaderToApp: !clientInput->isStarted()",
     "assert: sendHeaderToApp: !clientBodyBuffer->isStarted()",
     "assert: state_sendingHeaderToApp_verifyInvariants",
     "assert: sendBodyToApp: appOutputBuffer.empty()",
     "assert: sendBodyToApp: !clientBodyBuffer->isStarted()",
     "assert: sendBodyToApp: !clientInput->isStarted()",
     "assert: sendBodyToApp: !appOutputWatcher.is_active()",
     "assert: state_bufferingRequestBody_verifyInvariants",
     "assert: onClientData: !clientBodyBuffer->isCommittingToDisk()"}
NoPhaseAssertionFails == crashed \notin PhaseAssertions
SourcesStopped(c) == ~c.clientInput.started /\ ~c.clientBodyBuffer.started
\* what the events of these phases find
PhaseEventsFindInvariants ==
    \A id \in DOMAIN cl :
        connected(cl[id])
            => /\ (PoolCallback(id) \/ RunAsync(id))
                      => /\ cl[id].state = "CHECKING_OUT_SESSION"
                         /\ SourcesStopped(cl[id])
               /\ (AppOutputWritable(id) /\ cl[id].state = "SENDING_HEADER_TO_APP")
                      => SourcesStopped(cl[id])
               /\ (cl[id].state # "FORWARDING_BODY_TO_APP"
                   /\ cl'[id].state = "FORWARDING_BODY_TO_APP")
                      => cl'[id].appOutputBuffer = <<>>
               /\ ((ClientInputReadable(id) \/ ClientInputTick(id))
                   /\ cl[id].state = "BUFFERING_REQUEST_BODY")
                      => /\ cl[id].requestBodyIsBuffered
                         /\ ~cl[id].clientBodyBuffer.started
                         /\ ~cl[id].clientBodyBuffer.committing

C33_WitnessSending ==
    \E id \in Created :
        /\ cl[id].requestBodyIsBuffered /\ hist[id].eofRead
        /\ cl[id].state = "SENDING_HEADER_TO_APP"
        /\ cl[id].appOutputBuffer # <<>> /\ cl[id].appOutputWatcher
        /\ SourcesStopped(cl[id])

\* ---------------------------------------------------------------------
\* C34 is about a pool callback that finds its client disconnected
\* (sessionCheckedOut_real, the connected() test in its first statement).
\* While a checkout is outstanding the client is in CHECKING_OUT_SESSION
\* with clientInput, clientBodyBuffer, timeoutTimer and both watchers
\* stopped and nothing in clientOutputPipe, so no handler that could
\* disconnect it is delivered: every client with an outstanding callback
\* is still connected, and the early return is never the one taken.
CheckoutPendingKeepsClientConnected ==
    \A id \in Created :
        Outstanding(net[id]) > 0
            => /\ connected(cl[id])
               /\ cl[id].state = "CHECKING_OUT_SESSION"

\* the early return itself: handed a disconnected client,
\* sessionCheckedOut_real gives back the world it was given
LateCallbackFindsNothingToDo ==
    \A id \in Disconnected :
        \A result \in PoolResults :
            LET w == W([script |-> <<>>, app |-> Unused, cli |-> Unused, ub |-> "abort"])
            IN  sessionCheckedOut_real(w, id, result) = w

\* ---------------------------------------------------------------------
\* the worker's side of the session was closed (EOF or a read error) before
\* the end of the response header block arrived
WorkerEofBeforeHeader(id) ==
    hist[id].appEof /\ ~Contains(hist[id].appSent, "E")

\* clientOutputPipe has been ended with nothing in it and owes its end event
PipeEndIsDue(c) ==
    /\ c.clientOutputPipe.ended
    /\ c.clientOutputPipe.buf = <<>>
    /\ c.clientOutputPipe.started
    /\ ~c.clientOutputPipe.endReached

NothingForTheClient ==
    \A id \in Created :
        WorkerEofBeforeHeader(id)
            => /\ hist[id].pipeWritten = <<>>
               /\ hist[id].cliRecv = <<>>
               /\ ~cl[id].appInput.started
               /\ connected(cl[id]) => PipeEndIsDue(cl[id])

AfterWorkerEof ==
    \A id \in Created :
        /\ hist[id].appEof
               => /\ hist'[id].appSent = hist[id].appSent
                  /\ hist'[id].headerFed = hist[id].headerFed
                  /\ ~cl'[id].appInput.started
        /\ (WorkerEofBeforeHeader(id) /\ connected(cl[id])
                /\ ClientOutputPipeEnd(id))
               => /\ ~connected(cl'[id])
                  /\ cl'[id].state = "DISCONNECTED"
                  /\ hist'[id].lastError = hist[id].lastError
                  /\ hist'[id].cliRecv = <<>>

\* C35: when the worker sends EOF, or ECONNRESET, before the end of the
\* response header block, nothing is written to the client output pipe or to
\* the client, then or later; the pipe has been ended empty, its end event
\* disconnects the client without an error, and from the EOF on the worker
\* reader stays stopped and no worker input is handled.
C35_WorkerEofBeforeHeader ==
    []NothingForTheClient /\ [][AfterWorkerEof]_vars

\* the worker closed after part of a header block, the pipe's end event came
\* and the client is disconnected with nothing sent to it and no error logged
C35_Witness ==
    \E id \in Created :
        /\ WorkerEofBeforeHeader(id)
        /\ hist[id].appSent # <<>>
        /\ cl[id].clientOutputPipe.endReached
        /\ ~connected(cl[id])
        /\ hist[id].lastError = "none"
        /\ hist[id].cliRecv = <<>>

=============================================================================
